---- MODULE Spec2Model ----
(***************************************************************************)
(* A state-machine model of the Google Maps scraper: the retry policy,    *)
(* the browser session (init / close), the search pipeline (navigation,   *)
(* scrolling, listing extraction, detail enrichment, email harvesting)    *)
(* and the multi-region aggregator.                                        *)
(*                                                                         *)
(* Each component owns a group of variables.  A specification of one      *)
(* component leaves the variables of the others unchanged.                *)
(***************************************************************************)
EXTENDS Integers, Sequences, FiniteSets, TLC

(***************************************************************************)
(* Bounds of the model                                                     *)
(***************************************************************************)
\* largest maxRetries argument handed to retryWithBackoff
MaxAttempts == 6
\* number of distinct error values an operation can fail with
NumErrors == 2

Errors == 1..NumErrors
\* values a successful operation can return
Values == {10, 20}
\* the JavaScript value undefined / null
Undefined == 0
\* email: null
Null == "null"

(***************************************************************************)
(* Variables                                                               *)
(***************************************************************************)
VARIABLES
    \* ---- retryWithBackoff: one call in progress
    rb_pc,          \* "idle" | "invoke" | "sleep" | "returned" | "thrown"
    rb_arg,         \* the maxRetries argument of the call
    rb_retries,     \* const retries
    rb_i,           \* loop variable i
    rb_lastError,   \* let lastError
    rb_result,      \* the value returned or the error thrown
    rb_hist,        \* outcome of every invocation of fn, in order
    rb_delays       \* the delays waited, in order (ms)

retryVars == <<rb_pc, rb_arg, rb_retries, rb_i, rb_lastError, rb_result, rb_hist, rb_delays>>

VARIABLES
    \* ---- the browser session of one scraper instance
    browser,        \* this.browser: 0 (null) or the launched browser process
    procs,          \* browser processes launched and not yet exited
    launches,       \* number of browser processes launched so far
    openPages,      \* open pages, each <<process, page number>>
    cl_pc,          \* close(): "idle" | "pages" | "closePages" | "closeBrowser" | "returned"
    cl_entry,       \* this.browser when the close() in progress was entered
    cl_ops,         \* browser operations started by the close() in progress
    cl_caught,      \* the close() in progress ran its catch block
    init_threw      \* the last init() threw

sessionVars == <<browser, procs, launches, openPages, cl_pc, cl_entry, cl_ops, cl_caught, init_threw>>

VARIABLES
    \* ---- BatchEmailExtractor.extractEmailsBatch: one call in progress
    be_pc,          \* "idle" | "batch" | "delay" | "returned" | "threw"
    be_businesses,  \* the argument: a sequence of business records
    be_batchSize,   \* this.config.batchSize
    be_i,           \* loop variable i (0-based index of the batch's first business)
    be_slot,        \* per business: the promise of its map callback and its fetch
    be_results      \* const results

batchVars == <<be_pc, be_businesses, be_batchSize, be_i, be_slot, be_results>>

VARIABLES
    \* ---- the scraper instance and the search call in progress
    config,         \* this.config
    results,        \* this.results
    s_pc,           \* position of the search / searchByUrl call in progress
    s_kind,         \* "search" | "url"
    s_now,          \* Date.now() of the call (distinct for calls at different times)
    s_page,         \* number of the page the call opened, 0 when none
    s_opened,       \* pages the call has opened
    s_links,        \* the listing links extractBusinesses found rendered
    s_extracted,    \* the records as extractBusinesses returned them
    s_businesses,   \* const businesses (the records, updated in place)
    s_i,            \* loop variable i of scrapeBusinessDetails (0-based)
    s_attempts,     \* the candidates whose detail navigation was started, in order
    s_failed,       \* the candidates whose detail step ended in the catch block
    s_error,        \* the error the call is throwing, 0 when none
    s_result,       \* the value the call returns
    s_log,          \* the phases the call has entered, in order
    \* ---- performScrolling
    sc_i,           \* loop variable i
    sc_previousCount,
    sc_currentCount,
    sc_noChangeCount,
    sc_counts       \* the counts observed in the iterations run, in order

VARIABLES
    \* ---- searchMultipleQueries: one call in progress
    m_pc,           \* "idle" | "loop" | "sub" | "delay" | "returned"
    m_regions,      \* regions, after the default was applied
    m_base,         \* baseQuery
    m_k,            \* position in regions of the region of the current iteration
    m_allResults,   \* const allResults
    m_seenPlaceIds, \* const seenPlaceIds
    m_returned,     \* the identities of the records the sub-searches returned
    m_result        \* the value the call returns

multiVars == <<m_pc, m_regions, m_base, m_k, m_allResults, m_seenPlaceIds, m_returned, m_result>>

VARIABLES
    \* ---- the entry point: one run of Actor.main
    mn_pc,          \* "idle" | "item" | "init" | "search" | "push" | "close" | "delay" |
                    \* "record" | "done" | "threw"
    mn_input,       \* the input object
    mn_maxResults,  \* const maxResults of the destructuring
    mn_maxScrolls,  \* const maxScrolls of the destructuring
    mn_k,           \* position of the current query or URL: queries first, then URLs
    mn_started,     \* the positions whose try block was entered, in order
    mn_dataset,     \* what dataset.pushData has written, in order
    mn_stats,       \* stats.totalSearches and stats.failedSearches
    mn_n,           \* results.length of the current query or URL
    mn_i            \* loop variable i of the batch loop

mainVars == <<mn_pc, mn_input, mn_maxResults, mn_maxScrolls, mn_k, mn_started, mn_dataset,
              mn_stats, mn_n, mn_i>>

VARIABLES
    \* ---- one application of a function of the page script or of the utilities
    u_fn,           \* the function applied, "" before the call
    u_arg,          \* its argument
    u_out           \* the value it returned

utilVars == <<u_fn, u_arg, u_out>>

VARIABLES
    \* ---- one EmailExtractor instance and its call of extractEmailsFromWebsite in progress
    ex_config,      \* this.config
    ex_visitedUrls, \* this.visitedUrls
    ex_emailCache,  \* this.emailCache: the URLs cached, each with its list
    ex_pc,          \* "idle" | "attempt" | "closing"
    ex_url,         \* the url argument of the call in progress
    ex_retries,     \* let retries
    ex_validEmails, \* let validEmails of the attempt in progress
    ex_opened,      \* the call in progress has opened a page
    ex_navs,        \* per URL: the navigations to it started so far
    ex_returns      \* the calls that have completed, in order: url, the list returned,
                    \* whether the call opened a page

extractorVars == <<ex_config, ex_visitedUrls, ex_emailCache, ex_pc, ex_url, ex_retries,
                   ex_validEmails, ex_opened, ex_navs, ex_returns>>

VARIABLES
    \* ---- the search(query) calls in flight on one scraper instance
    sr_calls        \* per caller: position, query argument, page, the query of the
                    \* search URL navigated to, the query whose records are returned

callVars == <<sr_calls>>

cfgVars == <<config, results>>
searchVars == <<s_pc, s_kind, s_now, s_page, s_opened, s_links, s_extracted, s_businesses,
                s_i, s_attempts, s_failed, s_error, s_result, s_log>>
scrollVars == <<sc_i, sc_previousCount, sc_currentCount, sc_noChangeCount, sc_counts>>

vars == <<retryVars, sessionVars, batchVars, cfgVars, searchVars, scrollVars, multiVars, mainVars, utilVars, extractorVars, callVars>>

\* what the steps of one component leave alone
sessionNoPages == <<browser, procs, launches, cl_pc, cl_entry, cl_ops, cl_caught, init_threw>>
notRetry == <<sessionVars, batchVars, cfgVars, searchVars, scrollVars, multiVars, mainVars, utilVars, extractorVars, callVars>>
notSession == <<retryVars, batchVars, cfgVars, searchVars, scrollVars, multiVars, mainVars, utilVars, extractorVars, callVars>>
notBatch == <<retryVars, cfgVars, searchVars, scrollVars, multiVars, mainVars, utilVars, extractorVars, callVars>>
notBatchNorPages == <<notBatch, sessionNoPages>>

(***************************************************************************)
(* Retry policy: GoogleMapsScraper.retryWithBackoff                        *)
(***************************************************************************)
\* this.config.maxRetries as the constructor leaves it when none is supplied
DefaultMaxRetries == 3

RECURSIVE Pow2(_)
Pow2(n) == IF n = 0 THEN 1 ELSE 2 * Pow2(n - 1)

Min(a, b) == IF a < b THEN a ELSE b

\* the delay as it would be without the cap
BackoffDelayUncapped(i) == 1000 * Pow2(i)

\* const delay = Math.min(1000 * Math.pow(2, i), 10000)
BackoffDelay(i) == Min(1000 * Pow2(i), 10000)

\* const retries = maxRetries || this.config.maxRetries || 3
Retries(maxRetries) ==
    IF maxRetries # 0 THEN maxRetries
    ELSE IF DefaultMaxRetries # 0 THEN DefaultMaxRetries ELSE 3

RetryInit ==
    /\ rb_pc = "idle"
    /\ rb_arg = 0
    /\ rb_retries = 0
    /\ rb_i = 0
    /\ rb_lastError = Undefined
    /\ rb_result = Undefined
    /\ rb_hist = <<>>
    /\ rb_delays = <<>>

\* entry of retryWithBackoff up to the first test of the for loop
RetryEnter(maxRetries) ==
    /\ rb_arg' = maxRetries
    /\ rb_retries' = Retries(maxRetries)
    /\ rb_i' = 0
    /\ rb_lastError' = Undefined
    /\ rb_hist' = <<>>
    /\ rb_delays' = <<>>
    /\ IF 0 < Retries(maxRetries)
         THEN rb_pc' = "invoke" /\ rb_result' = Undefined
         ELSE rb_pc' = "thrown" /\ rb_result' = Undefined   \* throw lastError

\* return await fn()  -- fn resolves with v
RetryInvokeOk(v) ==
    /\ rb_pc = "invoke"
    /\ rb_hist' = Append(rb_hist, [ok |-> TRUE, val |-> v])
    /\ rb_pc' = "returned"
    /\ rb_result' = v
    /\ UNCHANGED <<rb_arg, rb_retries, rb_i, rb_lastError, rb_delays>>
    /\ UNCHANGED notRetry

\* the mutant: the loop gives up one attempt early
RetryInvokeFailEarly(e) ==
    /\ rb_pc = "invoke"
    /\ rb_hist' = Append(rb_hist, [ok |-> FALSE, val |-> e])
    /\ rb_lastError' = e
    /\ IF rb_i >= rb_retries - 2
         THEN /\ rb_pc' = "thrown"
              /\ rb_result' = e
              /\ UNCHANGED rb_delays
         ELSE /\ rb_pc' = "sleep"
              /\ rb_delays' = Append(rb_delays, BackoffDelay(rb_i))
              /\ UNCHANGED rb_result
    /\ UNCHANGED <<rb_arg, rb_retries, rb_i>>
    /\ UNCHANGED notRetry

\* catch (error): fn rejected with e
RetryInvokeFail(e) ==
    /\ rb_pc = "invoke"
    /\ rb_hist' = Append(rb_hist, [ok |-> FALSE, val |-> e])
    /\ rb_lastError' = e
    /\ IF rb_i = rb_retries - 1
         THEN /\ rb_pc' = "thrown"            \* throw error
              /\ rb_result' = e
              /\ UNCHANGED rb_delays
         ELSE /\ rb_pc' = "sleep"             \* await setTimeout(delay)
              /\ rb_delays' = Append(rb_delays, BackoffDelay(rb_i))
              /\ UNCHANGED rb_result
    /\ UNCHANGED <<rb_arg, rb_retries, rb_i>>
    /\ UNCHANGED notRetry

\* the delay has elapsed: i++ and the loop test
RetrySleepDone ==
    /\ rb_pc = "sleep"
    /\ rb_i' = rb_i + 1
    /\ IF rb_i + 1 < rb_retries
         THEN rb_pc' = "invoke" /\ UNCHANGED rb_result
         ELSE rb_pc' = "thrown" /\ rb_result' = rb_lastError   \* throw lastError
    /\ UNCHANGED <<rb_arg, rb_retries, rb_lastError, rb_hist, rb_delays>>
    /\ UNCHANGED notRetry

\* the caller has taken the result of the call
RetryLeave ==
    /\ rb_pc' = "idle"
    /\ rb_arg' = 0
    /\ rb_retries' = 0
    /\ rb_i' = 0
    /\ rb_lastError' = Undefined
    /\ rb_result' = Undefined
    /\ rb_hist' = <<>>
    /\ rb_delays' = <<>>

(***************************************************************************)
(* SpecRetry: retryWithBackoff called over and over with any maxRetries    *)
(* and any pattern of outcomes of the operation                            *)
(***************************************************************************)
retryWithBackoff ==
    /\ rb_pc = "idle"
    /\ \E maxRetries \in 0..MaxAttempts : RetryEnter(maxRetries)
    /\ UNCHANGED notRetry

RetryFnResolves == \E v \in Values : RetryInvokeOk(v)

RetryFnRejects == \E e \in Errors : RetryInvokeFail(e)

RetryWait == RetrySleepDone

RetryDone ==
    /\ rb_pc \in {"returned", "thrown"}
    /\ RetryLeave
    /\ UNCHANGED notRetry

NextRetry ==
    \/ retryWithBackoff
    \/ RetryFnResolves
    \/ RetryFnRejects
    \/ RetryWait
    \/ RetryDone

(***************************************************************************)
(* Session orchestrator: GoogleMapsScraper.init and GoogleMapsScraper.close *)
(***************************************************************************)
\* most browser processes one run of the model launches
MaxLaunch == 3

\* the state the constructor leaves: this.browser = null
SessionInit ==
    /\ browser = 0
    /\ procs = {}
    /\ launches = 0
    /\ openPages = {}
    /\ cl_pc = "idle"
    /\ cl_entry = 0
    /\ cl_ops = 0
    /\ cl_caught = FALSE
    /\ init_threw = FALSE

PagesOf(b) == {p \in openPages : p[1] = b}

\* this.browser = await puppeteer.launch(launchOptions), the launch succeeding:
\* the new process starts with one blank page
InitLaunched ==
    /\ cl_pc \in {"idle", "returned"}
    /\ launches < MaxLaunch
    /\ launches' = launches + 1
    /\ procs' = procs \cup {launches + 1}
    /\ openPages' = openPages \cup {<<launches + 1, 0>>}
    /\ browser' = launches + 1
    /\ init_threw' = FALSE
    /\ cl_pc' = "idle"
    /\ UNCHANGED <<cl_entry, cl_ops, cl_caught>>
    /\ UNCHANGED notSession

\* puppeteer.launch rejects: init() throws and this.browser is not assigned
InitLaunchFails ==
    /\ cl_pc \in {"idle", "returned"}
    /\ init_threw' = TRUE
    /\ cl_pc' = "idle"
    /\ UNCHANGED <<browser, procs, launches, openPages, cl_entry, cl_ops, cl_caught>>
    /\ UNCHANGED notSession

\* close() is called: if (this.browser) { try { ...
CloseEnter ==
    /\ cl_pc \in {"idle", "returned"}
    /\ cl_entry' = browser
    /\ cl_ops' = 0
    /\ cl_caught' = FALSE
    /\ cl_pc' = IF browser # 0 THEN "pages" ELSE "returned"
    /\ UNCHANGED <<browser, procs, launches, openPages, init_threw>>
    /\ UNCHANGED notSession

\* the mutant: the catch block keeps the handle
CloseCatchKeepsHandle ==
    /\ cl_caught' = TRUE
    /\ UNCHANGED browser
    /\ cl_pc' = "returned"

\* catch (error) { log.warning(...); if (this.browser) this.browser = null; }
CloseCatch ==
    /\ cl_caught' = TRUE
    /\ browser' = 0
    /\ cl_pc' = "returned"

\* const pages = await this.browser.pages()
CloseListPages ==
    /\ cl_pc = "pages"
    /\ cl_ops' = cl_ops + 1
    /\ cl_pc' = "closePages"
    /\ UNCHANGED <<browser, procs, launches, openPages, cl_entry, cl_caught, init_threw>>
    /\ UNCHANGED notSession

CloseListPagesFails ==
    /\ cl_pc = "pages"
    /\ cl_ops' = cl_ops + 1
    /\ CloseCatch
    /\ UNCHANGED <<procs, launches, openPages, cl_entry, init_threw>>
    /\ UNCHANGED notSession

\* await Promise.all(pages.map(page => page.close()))
CloseAllPages ==
    /\ cl_pc = "closePages"
    /\ cl_ops' = cl_ops + 1
    /\ openPages' = openPages \ PagesOf(browser)
    /\ cl_pc' = "closeBrowser"
    /\ UNCHANGED <<browser, procs, launches, cl_entry, cl_caught, init_threw>>
    /\ UNCHANGED notSession

\* one page.close() rejects: any of the pages may have been closed by then
CloseAllPagesFails ==
    /\ cl_pc = "closePages"
    /\ PagesOf(browser) # {}
    /\ cl_ops' = cl_ops + 1
    /\ \E closed \in SUBSET PagesOf(browser) :
          /\ closed # PagesOf(browser)
          /\ openPages' = openPages \ closed
    /\ CloseCatch
    /\ UNCHANGED <<procs, launches, cl_entry, init_threw>>
    /\ UNCHANGED notSession

\* await this.browser.close(); this.browser = null
CloseBrowser ==
    /\ cl_pc = "closeBrowser"
    /\ cl_ops' = cl_ops + 1
    /\ procs' = procs \ {browser}
    /\ openPages' = openPages \ PagesOf(browser)
    /\ browser' = 0
    /\ cl_pc' = "returned"
    /\ UNCHANGED <<launches, cl_entry, cl_caught, init_threw>>
    /\ UNCHANGED notSession

\* this.browser.close() rejects: the process may or may not have exited
CloseBrowserFails ==
    /\ cl_pc = "closeBrowser"
    /\ cl_ops' = cl_ops + 1
    /\ \/ UNCHANGED <<procs, openPages>>
       \/ /\ procs' = procs \ {browser}
          /\ openPages' = openPages \ PagesOf(browser)
    /\ CloseCatch
    /\ UNCHANGED <<launches, cl_entry, init_threw>>
    /\ UNCHANGED notSession

NextSession ==
    \/ InitLaunched
    \/ InitLaunchFails
    \/ CloseEnter
    \/ CloseListPages
    \/ CloseListPagesFails
    \/ CloseAllPages
    \/ CloseAllPagesFails
    \/ CloseBrowser
    \/ CloseBrowserFails

(***************************************************************************)
(* Configuration: GoogleMapsScraper.constructor                            *)
(***************************************************************************)
DefaultMaxResults == 100
DefaultMaxScrolls == 100

\* x || d for a number
OrNum(x, d) == IF x # 0 THEN x ELSE d

\* this.config = { searchQuery: config.searchQuery || '', maxResults: ... }
Constructor(in) ==
    [searchQuery   |-> in.searchQuery,
     maxResults    |-> OrNum(in.maxResults, DefaultMaxResults),
     maxScrolls    |-> OrNum(in.maxScrolls, DefaultMaxScrolls),
     scrapeDetails |-> in.scrapeDetails,
     scrapeEmails  |-> in.scrapeEmails,
     directUrl     |-> in.directUrl]

(***************************************************************************)
(* Listing extractor: GoogleMapsScraper.extractBusinesses                  *)
(***************************************************************************)
\* most links rendered in one page
MaxLinks == 3
\* number of distinct identifiers the links of a page can carry
NumIds == 1

\* A rendered link: key is the identifier the resolution chain finds in the
\* href or the DOM (0: none, so that the sequence-number fallback applies);
\* container and name tell whether the listing container and a non-empty name
\* are found (the name is looked for in the container).
Links == {link \in [key : 0..NumIds, container : BOOLEAN, name : BOOLEAN] :
             link.name => link.container}

\* placeId = `fallback_${index}_${Date.now()}`
FallbackId(index, now) == 1000 + 100 * now + index

\* the identity resolution chain of one link
PlaceIdOf(link, index, now) ==
    IF link.key # 0 THEN link.key ELSE FallbackId(index, now)

\* results.push({ name, placeId, ..., url: href })
Record(link, index, now) ==
    [placeId |-> PlaceIdOf(link, index, now),
     url     |-> index,
     address |-> "listing",
     website |-> "",
     email   |-> Null,
     emails  |-> <<>>]

\* the mutant: a link is never skipped as a duplicate
RECURSIVE ForEachLinkNoSeen(_, _, _, _, _)
ForEachLinkNoSeen(links, index, now, seen, acc) ==
    IF index > Len(links) THEN acc
    ELSE LET link == links[index]
         IN  IF ~link.container \/ ~link.name
               THEN ForEachLinkNoSeen(links, index + 1, now, seen, acc)
             ELSE ForEachLinkNoSeen(links, index + 1, now, seen,
                                    Append(acc, Record(link, index, now)))

\* links.forEach((link, index) => ...) from position index on
RECURSIVE ForEachLink(_, _, _, _, _)
ForEachLink(links, index, now, seen, acc) ==
    IF index > Len(links) THEN acc
    ELSE LET link == links[index]
             placeId == PlaceIdOf(link, index, now)
         IN  IF placeId \in seen
               THEN ForEachLink(links, index + 1, now, seen, acc)
             ELSE IF ~link.container \/ ~link.name
               THEN ForEachLink(links, index + 1, now, seen \cup {placeId}, acc)
             ELSE ForEachLink(links, index + 1, now, seen \cup {placeId},
                              Append(acc, Record(link, index, now)))

\* the array the page evaluation returns
ExtractAll(links, now) == ForEachLink(links, 1, now, {}, <<>>)

Max(a, b) == IF a > b THEN a ELSE b

\* Array.prototype.slice(0, n)
Slice0(s, n) ==
    IF n >= 0 THEN SubSeq(s, 1, Min(n, Len(s)))
    ELSE SubSeq(s, 1, Max(Len(s) + n, 0))

\* the mutant: the cap is applied to the rendered links, before dedup
ExtractCapFirst(links, now, maxResults) ==
    ExtractAll(Slice0(links, maxResults), now)

\* businesses.slice(0, this.config.maxResults)
extractBusinesses(links, now, maxResults) ==
    Slice0(ExtractAll(links, now), maxResults)

(***************************************************************************)
(* Scroll convergence controller: GoogleMapsScraper.performScrolling       *)
(***************************************************************************)
\* the stall count that ends the loop
StallLimit == 8
\* the listing count that ends the loop
CountCeiling == 200

ScrollInit ==
    /\ sc_i = 0
    /\ sc_previousCount = 0
    /\ sc_currentCount = 0
    /\ sc_noChangeCount = 0
    /\ sc_counts = <<>>

\* let previousCount = 0; let currentCount = 0; let noChangeCount = 0; i = 0
ScrollEnter ==
    /\ sc_i' = 0
    /\ sc_previousCount' = 0
    /\ sc_currentCount' = 0
    /\ sc_noChangeCount' = 0
    /\ sc_counts' = <<>>

\* performScrolling has returned: its locals are gone
ScrollLeave ==
    /\ sc_i' = 0
    /\ sc_previousCount' = 0
    /\ sc_currentCount' = 0
    /\ sc_noChangeCount' = 0
    /\ sc_counts' = <<>>

\* the iteration as it would be were the stall counter never reset
ScrollStepNoReset(count, more) ==
    LET stalled == count = sc_previousCount
        noChange == IF stalled THEN sc_noChangeCount + 1 ELSE sc_noChangeCount
        break == (stalled /\ noChange >= StallLimit) \/ count >= CountCeiling
    IN  /\ sc_currentCount' = count
        /\ sc_noChangeCount' = noChange
        /\ sc_counts' = Append(sc_counts, count)
        /\ sc_previousCount' = count
        /\ sc_i' = IF break THEN sc_i ELSE sc_i + 1
        /\ more = (~break /\ sc_i + 1 < config.maxScrolls)

\* the iteration as it would be were the ceiling only checked on a stalled count
ScrollStepCeilingWhenStalled(count, more) ==
    LET stalled == count = sc_previousCount
        noChange == IF stalled THEN sc_noChangeCount + 1 ELSE 0
        break == stalled /\ (noChange >= StallLimit \/ count >= CountCeiling)
    IN  /\ sc_currentCount' = count
        /\ sc_noChangeCount' = noChange
        /\ sc_counts' = Append(sc_counts, count)
        /\ sc_previousCount' = count
        /\ sc_i' = IF break THEN sc_i ELSE sc_i + 1
        /\ more = (~break /\ sc_i + 1 < config.maxScrolls)

\* one iteration of the loop that observes `count` links; `more` tells whether
\* the loop goes on to the next iteration
ScrollStep(count, more) ==
    LET stalled == count = sc_previousCount
        noChange == IF stalled THEN sc_noChangeCount + 1 ELSE 0
        break == (stalled /\ noChange >= StallLimit) \/ count >= CountCeiling
    IN  /\ sc_currentCount' = count
        /\ sc_noChangeCount' = noChange
        /\ sc_counts' = Append(sc_counts, count)
        /\ sc_previousCount' = count
        /\ sc_i' = IF break THEN sc_i ELSE sc_i + 1
        /\ more = (~break /\ sc_i + 1 < config.maxScrolls)

(***************************************************************************)
(* Concurrent email harvester: BatchEmailExtractor                         *)
(***************************************************************************)
\* most businesses handed to one extractEmailsBatch call
MaxBiz == 3
\* batchSize when the configuration gives none
DefaultBatchSize == 5

\* website values of a business: none, a link back to the platform, an external site
Websites == {"", "maps.google.com/x", "shop.com"}

\* !business.website || business.website.includes('google.com')
NoExternalSite(w) == w = "" \/ w \in {"maps.google.com/x", "www.google.com"}

\* An email address is a sequence of tokens: "@", ".", "-", "!" (a character no
\* class of the pattern has, such as a space), "1" (a digit), "a" (one letter)
\* and words of two or more letters.
Email(local, domain) == local \o <<"@">> \o domain

ShopCom == <<"shop", ".", "com">>

\* what the page evaluation of a site can find (in document order)
FoundLists ==
    { <<>>, <<Email(<<"info">>, ShopCom)>>,
      <<Email(<<"noreply">>, ShopCom), Email(<<"sales">>, ShopCom)>> }

\* const blacklist
Blacklist == {<<"example", ".", "com">>, <<"sentry", ".", "io">>, <<"wixpress", ".", "com">>,
              <<"noreply">>, <<"no", "-", "reply">>}

\* email.toLowerCase()
ToLowerCase(e) ==
    [j \in DOMAIN e |-> CASE e[j] = "NoReply" -> "noreply"
                          [] e[j] = "Example" -> "example"
                          [] e[j] = "Info" -> "info"
                          [] OTHER -> e[j]]

\* str.includes(sub)
Includes(str, sub) ==
    \E p \in 0..(Len(str) - Len(sub)) : \A j \in DOMAIN sub : str[p + j] = sub[j]

\* blacklist.some(blocked => lower.includes(blocked))
Blacklisted(e) == \E blocked \in Blacklist : Includes(ToLowerCase(e), blocked)

\* the characters of an address, each by its class: "l" letter, "d" digit
RECURSIVE CharsOf(_)
CharsOf(e) ==
    IF e = <<>> THEN <<>>
    ELSE (CASE Head(e) \in {"@", ".", "-", "!"} -> <<Head(e)>>
            [] Head(e) = "1" -> <<"d">>
            [] Head(e) = "a" -> <<"l">>
            [] OTHER -> <<"l", "l">>) \o CharsOf(Tail(e))

\* /^[a-zA-Z0-9._%+-]+@[a-zA-Z0-9.-]+\.[a-zA-Z]{2,}$/.test(email)
WellFormed(e) ==
    LET c == CharsOf(e)
    IN  \E at, dot \in DOMAIN c :
          /\ 1 < at /\ at + 1 < dot /\ dot + 2 <= Len(c)
          /\ \A j \in 1..(at - 1) : c[j] \in {"l", "d", ".", "-"}
          /\ c[at] = "@"
          /\ \A j \in (at + 1)..(dot - 1) : c[j] \in {"l", "d", ".", "-"}
          /\ c[dot] = "."
          /\ \A j \in (dot + 1)..Len(c) : c[j] = "l"

\* the mutant: an address passes when either test does
KeepEmailEither(e) == ~Blacklisted(e) \/ WellFormed(e)

KeepEmail(e) == ~Blacklisted(e) /\ WellFormed(e)

filterValidEmails(emails) == SelectSeq(emails, KeepEmail)

\* constructor: batchSize: config.batchSize || 5
BatchSizeOf(batchSize) == IF batchSize # 0 THEN batchSize ELSE DefaultBatchSize

BatchInit ==
    /\ be_pc = "idle"
    /\ be_businesses = <<>>
    /\ be_batchSize = DefaultBatchSize
    /\ be_i = 0
    /\ be_slot = <<>>
    /\ be_results = <<>>

\* a slot before its batch is reached
SlotIdle == [st |-> "none", page |-> 0, found |-> <<>>, err |-> FALSE, closeErr |-> FALSE,
             nth |-> 0, email |-> Null, emails |-> <<>>]

\* businesses.slice(i, i + batchSize), as 1-based positions
BatchOf(i, n, size) == {k \in 1..n : i < k /\ k <= i + size}

InFlight == {k \in DOMAIN be_slot : be_slot[k].st \in {"opening", "loading", "closing", "closingErr"}}

Settled(k) == be_slot[k].st \in {"fulfilled", "rejected"}

\* the page a fetch opens for the business at position k (page 0 is the browser's
\* blank page, page 1 the page of the search)
FetchPageNo(k) == 1 + k

\* batch.map(async (business) => ...): every callback runs to its first await
StartBatch(slots, businesses, i, size) ==
    [k \in DOMAIN slots |->
        IF k \in BatchOf(i, Len(businesses), size)
          THEN IF NoExternalSite(businesses[k].website)
                 THEN [slots[k] EXCEPT !.st = "fulfilled", !.email = Null, !.emails = <<>>]
                 ELSE [slots[k] EXCEPT !.st = "opening"]
          ELSE slots[k]]

\* entry of extractEmailsBatch up to the first await
BatchEnter(businesses, batchSize) ==
    /\ be_businesses' = businesses
    /\ be_batchSize' = BatchSizeOf(batchSize)
    /\ be_i' = 0
    /\ be_results' = <<>>
    /\ IF 0 < Len(businesses)
         THEN /\ be_pc' = "batch"
              /\ be_slot' = StartBatch([k \in 1..Len(businesses) |-> SlotIdle],
                                       businesses, 0, BatchSizeOf(batchSize))
         ELSE /\ be_pc' = "returned"
              /\ be_slot' = <<>>

\* the place of the next fetch to end among the fetches of the call (a callback
\* that starts no fetch has place 0)
NextNth == Cardinality({j \in DOMAIN be_slot : be_slot[j].nth > 0}) + 1

\* the mutant: the map callback has no try/catch, the rejection reaches Promise.all
SettleUncaught(k) ==
    be_slot' = [be_slot EXCEPT ![k].st = "rejected", ![k].err = TRUE, ![k].nth = NextNth]

\* catch (error) { return { ...business, email: null, emails: [] } }
SettleFailed(k) ==
    be_slot' = [be_slot EXCEPT ![k].st = "fulfilled", ![k].err = TRUE, ![k].nth = NextNth,
                               ![k].email = Null, ![k].emails = <<>>]

\* return { ...business, emails: emails, email: emails[0] || null }
SettleFound(k, emails) ==
    be_slot' = [be_slot EXCEPT ![k].st = "fulfilled", ![k].nth = NextNth,
                               ![k].emails = emails,
                               ![k].email = IF emails # <<>> THEN emails[1] ELSE Null]

\* const newPage = await this.page.browser().newPage()
FetchOpen(k) ==
    /\ be_slot[k].st = "opening"
    /\ openPages' = openPages \cup {<<browser, FetchPageNo(k)>>}
    /\ be_slot' = [be_slot EXCEPT ![k].st = "loading", ![k].page = FetchPageNo(k)]
    /\ UNCHANGED <<be_pc, be_businesses, be_batchSize, be_i, be_results>>
    /\ UNCHANGED notBatchNorPages

\* newPage() rejects: no page, the callback's catch settles the business
FetchOpenFails(k) ==
    /\ be_slot[k].st = "opening"
    /\ SettleFailed(k)
    /\ UNCHANGED <<be_pc, be_businesses, be_batchSize, be_i, be_results>>
    /\ UNCHANGED openPages
    /\ UNCHANGED notBatchNorPages

\* setRequestInterception, goto and evaluate succeed: emails are found
FetchLoaded(k, found) ==
    /\ be_slot[k].st = "loading"
    /\ be_slot' = [be_slot EXCEPT ![k].st = "closing", ![k].found = found]
    /\ UNCHANGED <<be_pc, be_businesses, be_batchSize, be_i, be_results>>
    /\ UNCHANGED openPages
    /\ UNCHANGED notBatchNorPages

\* setRequestInterception, goto or evaluate rejects: catch { await newPage.close() ...
FetchLoadFails(k) ==
    /\ be_slot[k].st = "loading"
    /\ be_slot' = [be_slot EXCEPT ![k].st = "closingErr", ![k].err = TRUE]
    /\ UNCHANGED <<be_pc, be_businesses, be_batchSize, be_i, be_results>>
    /\ UNCHANGED openPages
    /\ UNCHANGED notBatchNorPages

\* await newPage.close(); return this.filterValidEmails(emails)
FetchClosed(k) ==
    /\ be_slot[k].st = "closing"
    /\ openPages' = openPages \ {<<browser, be_slot[k].page>>}
    /\ SettleFound(k, filterValidEmails(be_slot[k].found))
    /\ UNCHANGED <<be_pc, be_businesses, be_batchSize, be_i, be_results>>
    /\ UNCHANGED notBatchNorPages

\* the close on the success path rejects: control moves to the catch block
FetchCloseFails(k) ==
    /\ be_slot[k].st = "closing"
    /\ be_slot' = [be_slot EXCEPT ![k].st = "closingErr", ![k].err = TRUE, ![k].found = <<>>]
    /\ UNCHANGED <<be_pc, be_businesses, be_batchSize, be_i, be_results>>
    /\ UNCHANGED openPages
    /\ UNCHANGED notBatchNorPages

\* the catch block as it would be without its close
FetchErrClosedLeaks(k) ==
    /\ be_slot[k].st = "closingErr"
    /\ UNCHANGED openPages
    /\ SettleFailed(k)
    /\ UNCHANGED <<be_pc, be_businesses, be_batchSize, be_i, be_results>>
    /\ UNCHANGED notBatchNorPages

\* catch (error) { await newPage.close(); throw error; }
FetchErrClosed(k) ==
    /\ be_slot[k].st = "closingErr"
    /\ openPages' = openPages \ {<<browser, be_slot[k].page>>}
    /\ SettleFailed(k)
    /\ UNCHANGED <<be_pc, be_businesses, be_batchSize, be_i, be_results>>
    /\ UNCHANGED notBatchNorPages

\* the close in the catch block rejects too: the page stays open and the error
\* of the close is thrown instead, which the callback's catch turns into
\* { ...business, email: null, emails: [] }
FetchErrCloseFails(k) ==
    /\ be_slot[k].st = "closingErr"
    /\ be_slot' = [be_slot EXCEPT ![k].st = "fulfilled", ![k].err = TRUE, ![k].closeErr = TRUE,
                                   ![k].nth = NextNth, ![k].email = Null, ![k].emails = <<>>]
    /\ UNCHANGED <<be_pc, be_businesses, be_batchSize, be_i, be_results>>
    /\ UNCHANGED openPages
    /\ UNCHANGED notBatchNorPages

\* { ...business, email, emails } of the business at position k
ResultOf(k) ==
    [be_businesses[k] EXCEPT !.email = be_slot[k].email, !.emails = be_slot[k].emails]

RECURSIVE ResultsOf(_, _)
ResultsOf(from, to) ==
    IF from > to THEN <<>> ELSE <<ResultOf(from)>> \o ResultsOf(from + 1, to)

CurrentBatch == BatchOf(be_i, Len(be_businesses), be_batchSize)

\* the mutant: the loop goes on as soon as one promise of the batch has settled
PromiseAny(batch) == \E k \in batch : Settled(k)

\* Promise.all settles: all fulfilled, or one rejected
PromiseAll(batch) ==
    \/ \A k \in batch : be_slot[k].st = "fulfilled"
    \/ \E k \in batch : be_slot[k].st = "rejected"

\* const batchResults = await Promise.all(batchPromises); results.push(...);
\* then the delay, or i += batchSize and the loop test
BatchJoin ==
    /\ be_pc = "batch"
    /\ PromiseAll(CurrentBatch)
    /\ IF \E k \in CurrentBatch : be_slot[k].st = "rejected"
         THEN /\ be_pc' = "threw"
              /\ UNCHANGED <<be_i, be_results>>
         ELSE /\ be_results' = be_results \o
                     ResultsOf(be_i + 1, Min(be_i + be_batchSize, Len(be_businesses)))
              /\ IF be_i + be_batchSize < Len(be_businesses)
                   THEN be_pc' = "delay" /\ UNCHANGED be_i
                   ELSE be_pc' = "returned" /\ be_i' = be_i + be_batchSize
    /\ UNCHANGED <<be_businesses, be_batchSize, be_slot>>
    /\ UNCHANGED <<sessionVars, notBatch>>

\* the delay between batches has elapsed: i += batchSize, the next batch starts
BatchDelayDone ==
    /\ be_pc = "delay"
    /\ be_i' = be_i + be_batchSize
    /\ be_pc' = "batch"
    /\ be_slot' = StartBatch(be_slot, be_businesses, be_i + be_batchSize, be_batchSize)
    /\ UNCHANGED <<be_businesses, be_batchSize, be_results>>
    /\ UNCHANGED <<sessionVars, notBatch>>

\* the caller has taken the result of the call: its locals are gone
BatchLeave ==
    /\ be_pc' = "idle"
    /\ be_businesses' = <<>>
    /\ be_batchSize' = DefaultBatchSize
    /\ be_i' = 0
    /\ be_slot' = <<>>
    /\ be_results' = <<>>

(***************************************************************************)
(* The search pipeline: GoogleMapsScraper.search, searchByUrl and          *)
(* scrapeBusinessDetails                                                   *)
(***************************************************************************)
\* most candidates the detail loop is given in the model of one search
MaxCand == 2
\* largest maxResults and maxScrolls of a configuration
MaxN == 2
MaxScrolls == 2

\* attempts of the navigations (the maxRetries arguments of the call sites)
SearchNavAttempts == 2
DetailNavAttempts == 3
\* batchSize handed to the BatchEmailExtractor
HarvestBatchSize == 5

SearchInit ==
    /\ results = <<>>
    /\ s_pc = "idle"
    /\ s_kind = "search"
    /\ s_now = 0
    /\ s_page = 0
    /\ s_opened = 0
    /\ s_links = <<>>
    /\ s_extracted = <<>>
    /\ s_businesses = <<>>
    /\ s_i = 0
    /\ s_attempts = <<>>
    /\ s_failed = {}
    /\ s_error = 0
    /\ s_result = <<>>
    /\ s_log = <<>>

\* the locals of a call that starts
SearchLocals(kind, now) ==
    /\ s_kind' = kind
    /\ s_now' = now
    /\ s_page' = 0
    /\ s_opened' = 0
    /\ s_links' = <<>>
    /\ s_extracted' = <<>>
    /\ s_businesses' = <<>>
    /\ s_i' = 0
    /\ s_attempts' = <<>>
    /\ s_failed' = {}
    /\ s_result' = <<>>
    /\ s_log' = <<>>

Phase(ph) ==
    s_log' = IF s_log # <<>> /\ s_log[Len(s_log)] = ph THEN s_log ELSE Append(s_log, ph)

\* search(query) up to `await this.browser.newPage()`
SearchEnter(query, now) ==
    LET cfg == IF query # <<>> THEN [config EXCEPT !.searchQuery = query] ELSE config
    IN  /\ config' = cfg
        /\ SearchLocals("search", now)
        /\ IF cfg.searchQuery = <<>> /\ cfg.directUrl = ""
             THEN s_pc' = "threw" /\ s_error' = 1     \* Search query or direct URL required
             ELSE s_pc' = "newPage" /\ s_error' = 0
        /\ UNCHANGED results

\* searchByUrl(url) up to `await this.browser.newPage()`
SearchByUrlEnter(now) ==
    /\ SearchLocals("url", now)
    /\ s_pc' = "newPage"
    /\ s_error' = 0
    /\ UNCHANGED <<config, results>>

\* the page of the search (page 0 is the browser's blank page)
SearchPageNo == 1

\* const page = await this.browser.newPage()
SearchNewPage ==
    /\ s_pc = "newPage"
    /\ browser # 0
    /\ openPages' = openPages \cup {<<browser, SearchPageNo>>}
    /\ s_page' = SearchPageNo
    /\ s_opened' = s_opened + 1
    /\ s_pc' = "setup"
    /\ UNCHANGED <<s_kind, s_now, s_links, s_extracted, s_businesses, s_i, s_attempts,
                   s_failed, s_error, s_result, s_log>>
    /\ UNCHANGED <<sessionNoPages, retryVars, batchVars, cfgVars, scrollVars>>
    /\ UNCHANGED <<multiVars, mainVars, utilVars, extractorVars, callVars>>

\* newPage() throws (no browser, or the browser refuses): outside the try
SearchNewPageFails ==
    /\ s_pc = "newPage"
    /\ s_pc' = "threw"
    /\ s_error' = 1
    /\ UNCHANGED <<s_kind, s_now, s_page, s_opened, s_links, s_extracted, s_businesses, s_i,
                   s_attempts, s_failed, s_result, s_log>>
    /\ UNCHANGED <<sessionVars, retryVars, batchVars, cfgVars, scrollVars>>
    /\ UNCHANGED <<multiVars, mainVars, utilVars, extractorVars, callVars>>

\* an await inside the try rejects: catch { log.error; throw error } finally ...
SearchCatch(e) ==
    /\ s_error' = e
    /\ s_pc' = "finally"

\* a return inside the try: finally ...
SearchReturn(value) ==
    /\ s_result' = value
    /\ s_pc' = "finally"

\* setViewport, evaluateOnNewDocument, setRequestInterception; then the
\* navigation starts under retryWithBackoff(..., 2, ...)
SearchSetup ==
    /\ s_pc = "setup"
    /\ RetryEnter(SearchNavAttempts)
    /\ Phase("navigate")
    /\ s_pc' = "nav"
    /\ UNCHANGED <<s_kind, s_now, s_page, s_opened, s_links, s_extracted, s_businesses, s_i,
                   s_attempts, s_failed, s_error, s_result>>
    /\ UNCHANGED <<sessionVars, batchVars, cfgVars, scrollVars>>
    /\ UNCHANGED <<multiVars, mainVars, utilVars, extractorVars, callVars>>

SearchSetupFails ==
    /\ s_pc = "setup"
    /\ SearchCatch(1)
    /\ UNCHANGED <<s_kind, s_now, s_page, s_opened, s_links, s_extracted, s_businesses, s_i,
                   s_attempts, s_failed, s_result, s_log>>
    /\ UNCHANGED <<sessionVars, retryVars, batchVars, cfgVars, scrollVars>>
    /\ UNCHANGED <<multiVars, mainVars, utilVars, extractorVars, callVars>>

\* performScrolling(page) up to the first test of its loop
ScrollBegin ==
    /\ ScrollEnter
    /\ s_pc' = IF 0 < config.maxScrolls THEN "scroll" ELSE "extract"

\* the navigation succeeded (and the 3 s wait is over)
SearchNavDone ==
    /\ s_pc = "nav"
    /\ rb_pc = "returned"
    /\ RetryLeave
    /\ IF s_kind = "search"
         THEN s_pc' = "check" /\ UNCHANGED scrollVars
         ELSE ScrollBegin
    /\ UNCHANGED <<s_kind, s_now, s_page, s_opened, s_links, s_extracted, s_businesses, s_i,
                   s_attempts, s_failed, s_error, s_result, s_log>>
    /\ UNCHANGED <<sessionVars, batchVars, cfgVars>>
    /\ UNCHANGED <<multiVars, mainVars, utilVars, extractorVars, callVars>>

\* the navigation failed on its last attempt
SearchNavFailed ==
    /\ s_pc = "nav"
    /\ rb_pc = "thrown"
    /\ RetryLeave
    /\ SearchCatch(rb_result)
    /\ UNCHANGED <<s_kind, s_now, s_page, s_opened, s_links, s_extracted, s_businesses, s_i,
                   s_attempts, s_failed, s_result, s_log>>
    /\ UNCHANGED <<sessionVars, batchVars, cfgVars, scrollVars>>
    /\ UNCHANGED <<multiVars, mainVars, utilVars, extractorVars, callVars>>

\* const hasResults = await page.evaluate(...): a feed and no 'no results' marker
SearchHasResults ==
    /\ s_pc = "check"
    /\ ScrollBegin
    /\ UNCHANGED <<s_kind, s_now, s_page, s_opened, s_links, s_extracted, s_businesses, s_i,
                   s_attempts, s_failed, s_error, s_result, s_log>>
    /\ UNCHANGED <<sessionVars, retryVars, batchVars, cfgVars>>
    /\ UNCHANGED <<multiVars, mainVars, utilVars, extractorVars, callVars>>

\* the mutant: the early return leaves without closing the page
SearchNoResultsLeaks ==
    /\ s_pc = "check"
    /\ s_result' = <<>>
    /\ s_pc' = "returned"
    /\ UNCHANGED <<s_kind, s_now, s_page, s_opened, s_links, s_extracted, s_businesses, s_i,
                   s_attempts, s_failed, s_error, s_log>>
    /\ UNCHANGED <<sessionVars, retryVars, batchVars, cfgVars, scrollVars>>
    /\ UNCHANGED <<multiVars, mainVars, utilVars, extractorVars, callVars>>

\* if (!hasResults) return []
SearchNoResults ==
    /\ s_pc = "check"
    /\ SearchReturn(<<>>)
    /\ UNCHANGED <<s_kind, s_now, s_page, s_opened, s_links, s_extracted, s_businesses, s_i,
                   s_attempts, s_failed, s_error, s_log>>
    /\ UNCHANGED <<sessionVars, retryVars, batchVars, cfgVars, scrollVars>>
    /\ UNCHANGED <<multiVars, mainVars, utilVars, extractorVars, callVars>>

SearchCheckFails ==
    /\ s_pc = "check"
    /\ SearchCatch(1)
    /\ UNCHANGED <<s_kind, s_now, s_page, s_opened, s_links, s_extracted, s_businesses, s_i,
                   s_attempts, s_failed, s_result, s_log>>
    /\ UNCHANGED <<sessionVars, retryVars, batchVars, cfgVars, scrollVars>>
    /\ UNCHANGED <<multiVars, mainVars, utilVars, extractorVars, callVars>>

\* one iteration of the scroll loop that counts `count` rendered links
ScrollIteration(count) ==
    /\ s_pc = "scroll"
    /\ \E more \in BOOLEAN :
          /\ ScrollStep(count, more)
          /\ s_pc' = IF more THEN "scroll" ELSE "extract"
    /\ Phase("scroll")
    /\ UNCHANGED <<s_kind, s_now, s_page, s_opened, s_links, s_extracted, s_businesses, s_i,
                   s_attempts, s_failed, s_error, s_result>>
    /\ UNCHANGED <<sessionVars, retryVars, batchVars, cfgVars>>
    /\ UNCHANGED <<multiVars, mainVars, utilVars, extractorVars, callVars>>

\* a page evaluation of the scroll loop rejects
ScrollFails ==
    /\ s_pc = "scroll"
    /\ SearchCatch(1)
    /\ Phase("scroll")
    /\ ScrollLeave
    /\ UNCHANGED <<s_kind, s_now, s_page, s_opened, s_links, s_extracted, s_businesses, s_i,
                   s_attempts, s_failed, s_result>>
    /\ UNCHANGED <<sessionVars, retryVars, batchVars, cfgVars>>
    /\ UNCHANGED <<multiVars, mainVars, utilVars, extractorVars, callVars>>

\* this.results = businesses; return businesses
SearchFinish(businesses) ==
    /\ results' = businesses
    /\ SearchReturn(businesses)

\* const businesses = await this.extractBusinesses(page), the page showing `links`
SearchExtract(links) ==
    /\ s_pc = "extract"
    /\ LET businesses == extractBusinesses(links, s_now, config.maxResults)
       IN  /\ s_links' = links
           /\ s_extracted' = businesses
           /\ s_businesses' = businesses
           /\ IF s_kind = "search" /\ config.scrapeDetails /\ Len(businesses) > 0
                THEN /\ s_pc' = "detailLoop"
                     /\ UNCHANGED <<results, s_result>>
                ELSE SearchFinish(businesses)
    /\ Phase("extract")
    /\ ScrollLeave
    /\ UNCHANGED <<s_kind, s_now, s_page, s_opened, s_i, s_attempts, s_failed, s_error>>
    /\ UNCHANGED <<sessionVars, retryVars, batchVars, config>>
    /\ UNCHANGED <<multiVars, mainVars, utilVars, extractorVars, callVars>>

\* the page evaluation of extractBusinesses rejects
SearchExtractFails ==
    /\ s_pc = "extract"
    /\ SearchCatch(1)
    /\ Phase("extract")
    /\ ScrollLeave
    /\ UNCHANGED <<s_kind, s_now, s_page, s_opened, s_links, s_extracted, s_businesses, s_i,
                   s_attempts, s_failed, s_result>>
    /\ UNCHANGED <<sessionVars, retryVars, batchVars, cfgVars>>
    /\ UNCHANGED <<multiVars, mainVars, utilVars, extractorVars, callVars>>

\* businessesToProcess.filter(b => b.website && !b.website.includes('google.com'))
WithWebsites(businesses) == SelectSeq(businesses, LAMBDA b : ~NoExternalSite(b.website))

\* the mutant: the emails of a business are harvested as soon as its details are in
HarvestEarly ==
    /\ config.scrapeEmails
    /\ WithWebsites(s_businesses) # <<>>

\* the email harvest starts after the loop: i has reached businesses.length
HarvestDue ==
    /\ s_i >= Len(s_businesses)
    /\ config.scrapeEmails
    /\ WithWebsites(s_businesses) # <<>>

\* top of the detail loop: the next candidate's navigation starts under
\* retryWithBackoff(..., 3, ...), or the loop is over and the harvest starts, or
\* scrapeBusinessDetails returns
DetailLoop ==
    /\ s_pc = "detailLoop"
    /\ IF HarvestDue
         THEN /\ BatchEnter(WithWebsites(s_businesses), HarvestBatchSize)
              /\ Phase("harvest")
              /\ s_pc' = "emails"
              /\ UNCHANGED <<retryVars, s_attempts, results, s_result>>
         ELSE IF s_i < Len(s_businesses)
         THEN /\ RetryEnter(DetailNavAttempts)
              /\ Phase("enrich")
              /\ s_attempts' = Append(s_attempts, s_i + 1)
              /\ s_pc' = "detailNav"
              /\ UNCHANGED <<batchVars, results, s_result>>
         ELSE /\ SearchFinish(s_businesses)
              /\ UNCHANGED <<retryVars, batchVars, s_attempts, s_log>>
    /\ UNCHANGED <<s_kind, s_now, s_page, s_opened, s_links, s_extracted, s_businesses, s_i,
                   s_failed, s_error>>
    /\ UNCHANGED <<sessionVars, config, scrollVars>>
    /\ UNCHANGED <<multiVars, mainVars, utilVars, extractorVars, callVars>>

\* the navigation to the candidate's detail page succeeded
DetailNavDone ==
    /\ s_pc = "detailNav"
    /\ rb_pc = "returned"
    /\ RetryLeave
    /\ s_pc' = "detailExtract"
    /\ UNCHANGED <<s_kind, s_now, s_page, s_opened, s_links, s_extracted, s_businesses, s_i,
                   s_attempts, s_failed, s_error, s_result, s_log>>
    /\ UNCHANGED <<sessionVars, batchVars, cfgVars, scrollVars>>
    /\ UNCHANGED <<multiVars, mainVars, utilVars, extractorVars, callVars>>

\* the mutant: a failing candidate ends the loop
DetailCatchBreaks ==
    /\ s_failed' = s_failed \cup {s_i + 1}
    /\ s_i' = Len(s_businesses)
    /\ s_pc' = "detailLoop"
    /\ UNCHANGED s_businesses

\* catch (error) { failCount++; log.error(...) } and i++
DetailCatch ==
    /\ s_failed' = s_failed \cup {s_i + 1}
    /\ s_i' = s_i + 1
    /\ s_pc' = "detailLoop"
    /\ UNCHANGED s_businesses

\* the navigation failed on its last attempt
DetailNavFailed ==
    /\ s_pc = "detailNav"
    /\ rb_pc = "thrown"
    /\ RetryLeave
    /\ DetailCatch
    /\ UNCHANGED <<s_kind, s_now, s_page, s_opened, s_links, s_extracted,
                   s_attempts, s_error, s_result, s_log>>
    /\ UNCHANGED <<sessionVars, batchVars, cfgVars, scrollVars>>
    /\ UNCHANGED <<multiVars, mainVars, utilVars, extractorVars, callVars>>

\* what the detail page of a candidate yields: an address or none, a website or none
Details == [address : {"", "detail"}, website : Websites]

\* if (details.address) business.address = validateAddress(details.address); ...
MergeDetails(business, details) ==
    [business EXCEPT
        !.address = IF details.address # "" THEN details.address ELSE @,
        !.website = IF details.website # "" THEN details.website ELSE @]

\* the page evaluations succeed: the details are merged into the record, i++
DetailExtract(details) ==
    /\ s_pc = "detailExtract"
    /\ s_businesses' = [s_businesses EXCEPT ![s_i + 1] = MergeDetails(@, details)]
    /\ s_i' = s_i + 1
    /\ s_pc' = "detailLoop"
    /\ UNCHANGED <<s_kind, s_now, s_page, s_opened, s_links, s_extracted,
                   s_attempts, s_failed, s_error, s_result, s_log>>
    /\ UNCHANGED <<sessionVars, retryVars, batchVars, cfgVars, scrollVars>>
    /\ UNCHANGED <<multiVars, mainVars, utilVars, extractorVars, callVars>>

\* the evaluation of the detail page rejects
DetailExtractFails ==
    /\ s_pc = "detailExtract"
    /\ DetailCatch
    /\ UNCHANGED <<s_kind, s_now, s_page, s_opened, s_links, s_extracted,
                   s_attempts, s_error, s_result, s_log>>
    /\ UNCHANGED <<sessionVars, retryVars, batchVars, cfgVars, scrollVars>>
    /\ UNCHANGED <<multiVars, mainVars, utilVars, extractorVars, callVars>>

\* original.email = updated.email; original.emails = updated.emails, for the
\* first record whose placeId is that of `updated`
\* the merge as it would be were the records matched by position
RECURSIVE MergeEmailsByPosition(_, _, _)
MergeEmailsByPosition(businesses, updated, j) ==
    IF j > Len(updated) THEN businesses
    ELSE MergeEmailsByPosition([businesses EXCEPT ![j].email = updated[j].email,
                                                  ![j].emails = updated[j].emails],
                               updated, j + 1)

RECURSIVE MergeEmails(_, _, _)
MergeEmails(businesses, updated, j) ==
    IF j > Len(updated) THEN businesses
    ELSE LET hits == {k \in 1..Len(businesses) : businesses[k].placeId = updated[j].placeId}
         IN  IF hits = {} THEN MergeEmails(businesses, updated, j + 1)
             ELSE LET k == CHOOSE x \in hits : \A y \in hits : x <= y
                  IN  MergeEmails([businesses EXCEPT ![k].email = updated[j].email,
                                                     ![k].emails = updated[j].emails],
                                  updated, j + 1)

\* extractEmailsBatch has returned: the emails are merged and search returns
HarvestDone ==
    /\ s_pc = "emails"
    /\ be_pc \in {"returned", "threw"}
    /\ IF be_pc = "returned"
         THEN LET merged == MergeEmails(s_businesses, be_results, 1)
              IN  /\ s_businesses' = merged
                  /\ SearchFinish(merged)
                  /\ UNCHANGED s_error
         ELSE /\ SearchCatch(1)
              /\ UNCHANGED <<s_businesses, results, s_result>>
    /\ BatchLeave
    /\ UNCHANGED <<s_kind, s_now, s_page, s_opened, s_links, s_extracted, s_i,
                   s_attempts, s_failed, s_log>>
    /\ UNCHANGED <<sessionVars, retryVars, config, scrollVars>>
    /\ UNCHANGED <<multiVars, mainVars, utilVars, extractorVars, callVars>>

\* the mutant: the page is closed on the normal path only
SearchFinallyOnSuccess ==
    /\ s_pc = "finally"
    /\ openPages' = IF s_error # 0 THEN openPages ELSE openPages \ {<<browser, s_page>>}
    /\ s_pc' = IF s_error # 0 THEN "threw" ELSE "returned"
    /\ UNCHANGED <<s_kind, s_now, s_page, s_opened, s_links, s_extracted, s_businesses, s_i,
                   s_attempts, s_failed, s_error, s_result, s_log>>
    /\ UNCHANGED <<sessionNoPages, retryVars, batchVars, cfgVars, scrollVars>>
    /\ UNCHANGED <<multiVars, mainVars, utilVars, extractorVars, callVars>>

\* finally { await page.close() }, then the call returns or throws
SearchFinally ==
    /\ s_pc = "finally"
    /\ openPages' = openPages \ {<<browser, s_page>>}
    /\ s_pc' = IF s_error # 0 THEN "threw" ELSE "returned"
    /\ UNCHANGED <<s_kind, s_now, s_page, s_opened, s_links, s_extracted, s_businesses, s_i,
                   s_attempts, s_failed, s_error, s_result, s_log>>
    /\ UNCHANGED <<sessionNoPages, retryVars, batchVars, cfgVars, scrollVars>>
    /\ UNCHANGED <<multiVars, mainVars, utilVars, extractorVars, callVars>>

\* the caller has taken the outcome of the call
SearchLeave ==
    /\ s_pc' = "idle"
    /\ SearchLocals("search", 0)
    /\ s_error' = 0

(***************************************************************************)
(* The multi-region aggregator: GoogleMapsScraper.searchMultipleQueries    *)
(***************************************************************************)
\* most regions a caller supplies
MaxRegions == 2

\* regions = ['', 'North', 'South', 'East', 'West', 'Downtown', 'Near me']
DefaultRegions == <<"", "North", "South", "East", "West", "Downtown", "Near me">>

MultiInit ==
    /\ m_pc = "idle"
    /\ m_regions = <<>>
    /\ m_base = <<>>
    /\ m_k = 0
    /\ m_allResults = <<>>
    /\ m_seenPlaceIds = {}
    /\ m_returned = {}
    /\ m_result = <<>>

\* const query = region ? `${baseQuery} ${region}` : baseQuery
RegionQuery(baseQuery, region) ==
    IF region # "" THEN Append(baseQuery, region) ELSE baseQuery

\* searchMultipleQueries(baseQuery, regions) up to the first iteration of its loop
MultiEnter(baseQuery, regions) ==
    /\ m_base' = baseQuery
    /\ m_regions' = IF Len(regions) = 0 THEN DefaultRegions ELSE regions
    /\ m_k' = 1
    /\ m_allResults' = <<>>
    /\ m_seenPlaceIds' = {}
    /\ m_returned' = {}
    /\ m_result' = <<>>
    /\ m_pc' = "loop"

\* for (const business of results) if (!seenPlaceIds.has(business.placeId)) { add; push }
\* from position j of results on
RECURSIVE MergeNew(_, _, _, _)
MergeNew(all, seen, rs, j) ==
    IF j > Len(rs) THEN all
    ELSE IF rs[j].placeId \in seen THEN MergeNew(all, seen, rs, j + 1)
    ELSE MergeNew(Append(all, rs[j]), seen \cup {rs[j].placeId}, rs, j + 1)

\* this.results = allResults.slice(0, this.config.maxResults); return this.results
MultiFinish(all) ==
    /\ results' = Slice0(all, config.maxResults)
    /\ m_result' = Slice0(all, config.maxResults)
    /\ m_pc' = "returned"

\* the loop head: the sub-search of the next region starts, or the loop is over
MultiLoop ==
    /\ m_pc = "loop"
    /\ s_pc = "idle"
    /\ IF m_k <= Len(m_regions)
         THEN /\ SearchEnter(RegionQuery(m_base, m_regions[m_k]), m_k)
              /\ m_pc' = "sub"
              /\ UNCHANGED m_result
         ELSE /\ MultiFinish(m_allResults)
              /\ UNCHANGED <<config, searchVars>>
    /\ UNCHANGED <<m_regions, m_base, m_k, m_allResults, m_seenPlaceIds, m_returned>>
    /\ UNCHANGED <<utilVars, extractorVars, callVars, mainVars, sessionVars, retryVars, batchVars, scrollVars>>

\* the mutant: the loop goes on after the cap is reached
MultiSubReturnedNoBreak ==
    /\ m_pc = "sub"
    /\ s_pc = "returned"
    /\ LET all == MergeNew(m_allResults, m_seenPlaceIds, s_result, 1)
       IN  /\ m_allResults' = all
           /\ m_seenPlaceIds' = {all[j].placeId : j \in DOMAIN all}
           /\ m_returned' = m_returned \cup {s_result[j].placeId : j \in DOMAIN s_result}
           /\ m_pc' = "delay"
           /\ UNCHANGED <<results, m_result>>
    /\ SearchLeave
    /\ UNCHANGED <<m_regions, m_base, m_k>>
    /\ UNCHANGED <<utilVars, extractorVars, callVars, mainVars, sessionVars, retryVars, batchVars, config, scrollVars>>

\* the sub-search returned: merge its records; break when the cap is reached,
\* else wait a second
MultiSubReturned ==
    /\ m_pc = "sub"
    /\ s_pc = "returned"
    /\ LET all == MergeNew(m_allResults, m_seenPlaceIds, s_result, 1)
       IN  /\ m_allResults' = all
           /\ m_seenPlaceIds' = {all[j].placeId : j \in DOMAIN all}
           /\ m_returned' = m_returned \cup {s_result[j].placeId : j \in DOMAIN s_result}
           /\ IF Len(all) >= config.maxResults
                THEN MultiFinish(all)
                ELSE m_pc' = "delay" /\ UNCHANGED <<results, m_result>>
    /\ SearchLeave
    /\ UNCHANGED <<m_regions, m_base, m_k>>
    /\ UNCHANGED <<utilVars, extractorVars, callVars, mainVars, sessionVars, retryVars, batchVars, config, scrollVars>>

\* the mutant: a sub-search that throws ends the loop
MultiSubThrewEnds ==
    /\ m_pc = "sub"
    /\ s_pc = "threw"
    /\ SearchLeave
    /\ MultiFinish(m_allResults)
    /\ UNCHANGED <<m_regions, m_base, m_k, m_allResults, m_seenPlaceIds, m_returned>>
    /\ UNCHANGED <<utilVars, extractorVars, callVars, mainVars, sessionVars, retryVars, batchVars, config, scrollVars>>

\* the sub-search threw: catch (error) { log.error(...) } and the next region
MultiSubThrew ==
    /\ m_pc = "sub"
    /\ s_pc = "threw"
    /\ SearchLeave
    /\ m_k' = m_k + 1
    /\ m_pc' = "loop"
    /\ UNCHANGED <<m_regions, m_base, m_allResults, m_seenPlaceIds, m_returned, m_result>>
    /\ UNCHANGED <<utilVars, extractorVars, callVars, mainVars, sessionVars, retryVars, batchVars, cfgVars, scrollVars>>

\* the delay between two sub-searches is over: the next region
MultiDelayDone ==
    /\ m_pc = "delay"
    /\ m_k' = m_k + 1
    /\ m_pc' = "loop"
    /\ UNCHANGED <<m_regions, m_base, m_allResults, m_seenPlaceIds, m_returned, m_result>>
    /\ UNCHANGED <<utilVars, extractorVars, callVars, mainVars, sessionVars, retryVars, batchVars, cfgVars, searchVars, scrollVars>>

(***************************************************************************)
(* SpecBatch: extractEmailsBatch called over and over on an open browser   *)
(***************************************************************************)
RECURSIVE SeqsUpTo(_, _)
SeqsUpTo(S, n) ==
    IF n = 0 THEN {<<>>}
    ELSE LET shorter == SeqsUpTo(S, n - 1)
         IN  shorter \cup {Append(s, x) : s \in shorter, x \in S}

\* any list of at most MaxBiz businesses, identified by their position
BusinessLists ==
    {[k \in 1..Len(ws) |->
        [placeId |-> k, url |-> k, address |-> "listing", website |-> ws[k],
         email |-> Null, emails |-> <<>>]] : ws \in SeqsUpTo(Websites, MaxBiz)}

extractEmailsBatch ==
    /\ be_pc = "idle"
    /\ \E businesses \in BusinessLists, batchSize \in {0, 1, 2} :
          BatchEnter(businesses, batchSize)
    /\ UNCHANGED <<sessionVars, notBatch>>

FetchNewPage == \E k \in DOMAIN be_slot : FetchOpen(k)
FetchNewPageFails == \E k \in DOMAIN be_slot : FetchOpenFails(k)
FetchPageLoaded == \E k \in DOMAIN be_slot, found \in FoundLists : FetchLoaded(k, found)
FetchPageFails == \E k \in DOMAIN be_slot : FetchLoadFails(k)
FetchPageClosed == \E k \in DOMAIN be_slot : FetchClosed(k)
FetchPageCloseFails == \E k \in DOMAIN be_slot : FetchCloseFails(k)
FetchCatchClosed == \E k \in DOMAIN be_slot : FetchErrClosed(k)
FetchCatchCloseFails == \E k \in DOMAIN be_slot : FetchErrCloseFails(k)

BatchDone ==
    /\ be_pc \in {"returned", "threw"}
    /\ BatchLeave
    /\ openPages' = {<<browser, 0>>, <<browser, 1>>}    \* the next call starts on a fresh session
    /\ UNCHANGED sessionNoPages
    /\ UNCHANGED notBatch

NextBatch ==
    \/ extractEmailsBatch
    \/ FetchNewPage
    \/ FetchNewPageFails
    \/ FetchPageLoaded
    \/ FetchPageFails
    \/ FetchPageClosed
    \/ FetchPageCloseFails
    \/ FetchCatchClosed
    \/ FetchCatchCloseFails
    \/ BatchJoin
    \/ BatchDelayDone
    \/ BatchDone

\* a launched browser with its blank page and the page of the search in progress
SessionOpen ==
    /\ browser = 1
    /\ procs = {1}
    /\ launches = 1
    /\ openPages = {<<1, 0>>, <<1, 1>>}
    /\ cl_pc = "idle"
    /\ cl_entry = 0
    /\ cl_ops = 0
    /\ cl_caught = FALSE
    /\ init_threw = FALSE

(***************************************************************************)
(* SpecSearch: one call of search or searchByUrl on a scraper that has     *)
(* launched its browser, for any configuration                            *)
(***************************************************************************)
\* a query is the sequence of its words; the empty string has none
NoQuery == <<>>
Queries == {NoQuery, <<"cafe">>}

\* what the caller hands to the constructor
Inputs ==
    [searchQuery : Queries, directUrl : {"", "url"}, maxResults : 0..MaxN,
     maxScrolls : 1..MaxScrolls, scrapeDetails : BOOLEAN, scrapeEmails : BOOLEAN]

\* the links whose container and name are found
UsableLinks == {link \in Links : link.container /\ link.name}

\* the rendered link lists of a page whose records go through the detail loop
CandidateLinks == SeqsUpTo(UsableLinks, MaxCand)

\* the link counts an iteration of the scroll loop can observe
ScrollCounts == {0, 1, CountCeiling}

\* after init(): one browser with its blank page
SessionLaunched ==
    /\ browser = 1
    /\ procs = {1}
    /\ launches = 1
    /\ openPages = {<<1, 0>>}
    /\ cl_pc = "idle"
    /\ cl_entry = 0
    /\ cl_ops = 0
    /\ cl_caught = FALSE
    /\ init_threw = FALSE

search ==
    /\ s_pc = "idle"
    /\ m_pc = "idle"
    /\ \E query \in Queries : SearchEnter(query, 0)
    /\ UNCHANGED <<sessionVars, retryVars, batchVars, scrollVars>>
    /\ UNCHANGED <<multiVars, mainVars, utilVars, extractorVars, callVars>>

searchByUrl ==
    /\ s_pc = "idle"
    /\ m_pc = "idle"
    /\ SearchByUrlEnter(0)
    /\ UNCHANGED <<sessionVars, retryVars, batchVars, scrollVars>>
    /\ UNCHANGED <<multiVars, mainVars, utilVars, extractorVars, callVars>>

\* page.goto resolves (the wait for the feed selector never rejects)
NavResolves == RetryInvokeOk(Undefined)

\* page.goto rejects (a timeout, a network error)
NavRejects == RetryInvokeFail(1)

performScrolling == \E count \in ScrollCounts : ScrollIteration(count)

extractCandidates == \E links \in CandidateLinks : SearchExtract(links)

scrapeBusinessDetails == \E details \in Details : DetailExtract(details)

NextSearch ==
    \/ search
    \/ searchByUrl
    \/ SearchNewPage
    \/ SearchNewPageFails
    \/ SearchSetup
    \/ SearchSetupFails
    \/ NavResolves
    \/ NavRejects
    \/ RetryWait
    \/ SearchNavDone
    \/ SearchNavFailed
    \/ SearchHasResults
    \/ SearchNoResults
    \/ SearchCheckFails
    \/ performScrolling
    \/ ScrollFails
    \/ extractCandidates
    \/ SearchExtractFails
    \/ DetailLoop
    \/ DetailNavDone
    \/ DetailNavFailed
    \/ scrapeBusinessDetails
    \/ DetailExtractFails
    \/ FetchNewPage
    \/ FetchNewPageFails
    \/ FetchPageLoaded
    \/ FetchPageFails
    \/ FetchPageClosed
    \/ FetchPageCloseFails
    \/ FetchCatchClosed
    \/ FetchCatchCloseFails
    \/ BatchJoin
    \/ HarvestDone
    \/ SearchFinally

(***************************************************************************)
(* SpecMulti: one call of search, searchByUrl or searchMultipleQueries on  *)
(* a scraper that collects listings only, the pages showing any links      *)
(***************************************************************************)
\* the region names a caller supplies
Regions == {"", "North"}

RegionLists == SeqsUpTo(Regions, MaxRegions)

\* any list of rendered links
LinkLists == SeqsUpTo(Links, MaxLinks)

\* configurations without enrichment, with a cap of their own and one scroll
ListingInputs ==
    {in \in Inputs : /\ ~in.scrapeDetails /\ ~in.scrapeEmails
                     /\ in.maxResults >= 1 /\ in.maxScrolls = 1}

searchMultipleQueries ==
    /\ m_pc = "idle"
    /\ s_pc = "idle"
    /\ \E baseQuery \in Queries, regions \in RegionLists : MultiEnter(baseQuery, regions)
    /\ UNCHANGED <<utilVars, extractorVars, callVars, mainVars, sessionVars, retryVars, batchVars, cfgVars, searchVars, scrollVars>>

extractBusinessesOfPage == \E links \in LinkLists : SearchExtract(links)

NextMulti ==
    \/ search
    \/ searchByUrl
    \/ searchMultipleQueries
    \/ MultiLoop
    \/ MultiSubReturned
    \/ MultiSubThrew
    \/ MultiDelayDone
    \/ SearchNewPage
    \/ SearchNewPageFails
    \/ SearchSetup
    \/ SearchSetupFails
    \/ NavResolves
    \/ NavRejects
    \/ RetryWait
    \/ SearchNavDone
    \/ SearchNavFailed
    \/ SearchHasResults
    \/ SearchNoResults
    \/ SearchCheckFails
    \/ performScrolling
    \/ ScrollFails
    \/ extractBusinessesOfPage
    \/ SearchExtractFails
    \/ SearchFinally

(***************************************************************************)
(* The entry point: validateInput and Actor.main                           *)
(***************************************************************************)
\* a field of the input object: <<>> when absent, <<n>> when present
Absent == <<>>

MaxResultsLimit == 200
MaxScrollsLimit == 100
MainDefaultMaxResults == 100
MainDefaultMaxScrolls == 50
\* const BATCH_SIZE
PushBatchSize == 50

\* if (input.f && input.f > limit) input.f = limit
CapField(field, limit) ==
    IF field # Absent /\ field[1] # 0 /\ field[1] > limit THEN <<limit>> ELSE field

\* the blank queries are filtered out, the limits are applied from above
validateInput(input) ==
    [input EXCEPT !.maxResults = CapField(@, MaxResultsLimit),
                  !.searchQueries = SelectSeq(@, LAMBDA q : q # NoQuery),
                  !.maxScrolls = CapField(@, MaxScrollsLimit)]

\* const { f = default } = input
Destructure(field, default) == IF field = Absent THEN default ELSE field[1]

ItemCount == Len(mn_input.searchQueries) + Len(mn_input.startUrls)
IsQuery(k) == k <= Len(mn_input.searchQueries)
UrlOf(k) == mn_input.startUrls[k - Len(mn_input.searchQueries)]

\* new URL(url) throws on a string that is no URL
ValidUrl(url) == url = "url"

MainInit ==
    /\ mn_pc = "idle"
    /\ mn_maxResults = 0
    /\ mn_maxScrolls = 0
    /\ mn_k = 0
    /\ mn_started = <<>>
    /\ mn_dataset = <<>>
    /\ mn_stats = [totalSearches |-> 0, failedSearches |-> 0]
    /\ mn_n = 0
    /\ mn_i = 0

\* input = validateInput(input); the destructuring; the check for work to do
MainStart ==
    /\ mn_pc = "idle"
    /\ LET input == validateInput(mn_input)
       IN  /\ mn_input' = input
           /\ mn_maxResults' = Destructure(input.maxResults, MainDefaultMaxResults)
           /\ mn_maxScrolls' = Destructure(input.maxScrolls, MainDefaultMaxScrolls)
           /\ mn_pc' = IF Len(input.searchQueries) = 0 /\ Len(input.startUrls) = 0
                         THEN "threw" ELSE "item"
    /\ mn_k' = 1
    /\ UNCHANGED <<mn_started, mn_dataset, mn_stats, mn_n, mn_i>>
    /\ UNCHANGED <<retryVars, sessionVars, batchVars, cfgVars, searchVars, scrollVars, multiVars, utilVars, extractorVars, callVars>>

\* catch (error) { log.error(...); stats.failedSearches++; ...
MainCatch ==
    /\ mn_stats' = [mn_stats EXCEPT !.failedSearches = @ + 1]
    /\ mn_n' = 0
    /\ mn_i' = 0
    /\ mn_pc' = "record"

\* the for loops go on with the next query or URL, or are over
MainAdvance ==
    /\ mn_k' = mn_k + 1
    /\ mn_pc' = IF mn_k < ItemCount THEN "item" ELSE "done"

\* the top of the try block: stats.totalSearches++, new URL(url) for a start
\* URL, and a new scraper instance
MainItem ==
    /\ mn_pc = "item"
    /\ mn_started' = Append(mn_started, mn_k)
    /\ IF ~IsQuery(mn_k) /\ ~ValidUrl(UrlOf(mn_k))
         THEN /\ mn_stats' = [totalSearches |-> mn_stats.totalSearches + 1,
                              failedSearches |-> mn_stats.failedSearches + 1]
              /\ mn_pc' = "record"
              /\ UNCHANGED <<cfgVars, sessionVars>>
         ELSE /\ mn_stats' = [mn_stats EXCEPT !.totalSearches = @ + 1]
              /\ config' = Constructor(
                     [searchQuery   |-> IF IsQuery(mn_k) THEN mn_input.searchQueries[mn_k]
                                        ELSE <<"Direct URL">>,
                      directUrl     |-> IF IsQuery(mn_k) THEN "" ELSE UrlOf(mn_k),
                      maxResults    |-> mn_maxResults,
                      maxScrolls    |-> mn_maxScrolls,
                      scrapeDetails |-> TRUE,
                      scrapeEmails  |-> TRUE])
              /\ results' = <<>>
              /\ browser' = 0
              /\ cl_pc' = "idle"
              /\ cl_entry' = 0
              /\ cl_ops' = 0
              /\ cl_caught' = FALSE
              /\ init_threw' = FALSE
              /\ mn_pc' = "init"
              /\ UNCHANGED <<procs, launches, openPages>>
    /\ mn_n' = 0
    /\ mn_i' = 0
    /\ UNCHANGED <<mn_input, mn_maxResults, mn_maxScrolls, mn_k, mn_dataset>>
    /\ UNCHANGED <<retryVars, batchVars, searchVars, scrollVars, multiVars, utilVars, extractorVars, callVars>>

\* await scraper.init()
MainInitCall ==
    /\ mn_pc = "init"
    /\ browser = 0
    /\ ~init_threw
    /\ (InitLaunched \/ InitLaunchFails)

MainInitSettled ==
    /\ mn_pc = "init"
    /\ browser # 0 \/ init_threw
    /\ IF init_threw
         THEN MainCatch
         ELSE mn_pc' = "search" /\ UNCHANGED <<mn_stats, mn_n, mn_i>>
    /\ UNCHANGED <<mn_input, mn_maxResults, mn_maxScrolls, mn_k, mn_started, mn_dataset>>
    /\ UNCHANGED <<retryVars, sessionVars, batchVars, cfgVars, searchVars, scrollVars, multiVars, utilVars, extractorVars, callVars>>

\* the numbers of records a search call of the entry point returns
ResultCounts == {0, 1, PushBatchSize + 1}

\* results = await scraper.search() / searchMultipleQueries(...) / searchByUrl(url)
\* returns: the pages the call opened are closed again
MainSearchReturns ==
    /\ mn_pc = "search"
    /\ \E n \in ResultCounts :
          /\ mn_n' = n
          /\ mn_pc' = IF 0 < n THEN "push" ELSE "close"
    /\ mn_i' = 0
    /\ UNCHANGED <<mn_input, mn_maxResults, mn_maxScrolls, mn_k, mn_started, mn_dataset, mn_stats>>
    /\ UNCHANGED <<retryVars, sessionVars, batchVars, cfgVars, searchVars, scrollVars, multiVars, utilVars, extractorVars, callVars>>

MainSearchThrows ==
    /\ mn_pc = "search"
    /\ MainCatch
    /\ UNCHANGED <<mn_input, mn_maxResults, mn_maxScrolls, mn_k, mn_started, mn_dataset>>
    /\ UNCHANGED <<retryVars, sessionVars, batchVars, cfgVars, searchVars, scrollVars, multiVars, utilVars, extractorVars, callVars>>

\* await dataset.pushData(batch) for the batch starting at i
MainPush ==
    /\ mn_pc = "push"
    /\ mn_dataset' = Append(mn_dataset, [kind |-> "batch", item |-> mn_k])
    /\ mn_i' = mn_i + PushBatchSize
    /\ mn_pc' = IF mn_i + PushBatchSize < mn_n THEN "push" ELSE "close"
    /\ UNCHANGED <<mn_input, mn_maxResults, mn_maxScrolls, mn_k, mn_started, mn_stats, mn_n>>
    /\ UNCHANGED <<retryVars, sessionVars, batchVars, cfgVars, searchVars, scrollVars, multiVars, utilVars, extractorVars, callVars>>

MainPushFails ==
    /\ mn_pc = "push"
    /\ MainCatch
    /\ UNCHANGED <<mn_input, mn_maxResults, mn_maxScrolls, mn_k, mn_started, mn_dataset>>
    /\ UNCHANGED <<retryVars, sessionVars, batchVars, cfgVars, searchVars, scrollVars, multiVars, utilVars, extractorVars, callVars>>

\* await scraper.close()
MainCloseCall ==
    /\ mn_pc = "close"
    /\ cl_pc # "returned"
    /\ \/ CloseEnter
       \/ CloseListPages
       \/ CloseListPagesFails
       \/ CloseAllPages
       \/ CloseAllPagesFails
       \/ CloseBrowser
       \/ CloseBrowserFails

\* close() returned; await new Promise(resolve => setTimeout(resolve, 1000))
MainCloseReturned ==
    /\ mn_pc = "close"
    /\ cl_pc = "returned"
    /\ mn_pc' = "delay"
    /\ UNCHANGED <<mn_input, mn_maxResults, mn_maxScrolls, mn_k, mn_started, mn_dataset,
                   mn_stats, mn_n, mn_i>>
    /\ UNCHANGED <<retryVars, sessionVars, batchVars, cfgVars, searchVars, scrollVars, multiVars, utilVars, extractorVars, callVars>>

MainDelayDone ==
    /\ mn_pc = "delay"
    /\ MainAdvance
    /\ UNCHANGED <<mn_input, mn_maxResults, mn_maxScrolls, mn_started, mn_dataset,
                   mn_stats, mn_n, mn_i>>
    /\ UNCHANGED <<retryVars, sessionVars, batchVars, cfgVars, searchVars, scrollVars, multiVars, utilVars, extractorVars, callVars>>

\* the catch block: await dataset.pushData({ query, error, timestamp })
MainRecord ==
    /\ mn_pc = "record"
    /\ mn_dataset' = Append(mn_dataset, [kind |-> "error", item |-> mn_k])
    /\ MainAdvance
    /\ UNCHANGED <<mn_input, mn_maxResults, mn_maxScrolls, mn_started, mn_stats, mn_n, mn_i>>
    /\ UNCHANGED <<retryVars, sessionVars, batchVars, cfgVars, searchVars, scrollVars, multiVars, utilVars, extractorVars, callVars>>

\* the pushData of the catch block rejects: nothing catches it, Actor.main ends
MainRecordFails ==
    /\ mn_pc = "record"
    /\ mn_pc' = "threw"
    /\ UNCHANGED <<mn_input, mn_maxResults, mn_maxScrolls, mn_k, mn_started, mn_dataset,
                   mn_stats, mn_n, mn_i>>
    /\ UNCHANGED <<retryVars, sessionVars, batchVars, cfgVars, searchVars, scrollVars, multiVars, utilVars, extractorVars, callVars>>

(***************************************************************************)
(* SpecMain: one run of Actor.main on any input                            *)
(***************************************************************************)
\* most queries and start URLs of one input
MaxItems == 2

StartUrls == {"url", "no url"}
FieldValues == {Absent, <<-1>>, <<0>>, <<1>>, <<MaxResultsLimit + 1>>}

MainInputs ==
    {in \in [searchQueries : SeqsUpTo(Queries, MaxItems),
             startUrls     : SeqsUpTo(StartUrls, MaxItems),
             maxResults    : FieldValues,
             maxScrolls    : FieldValues] :
        Len(in.searchQueries) + Len(in.startUrls) <= MaxItems}

NextMain ==
    \/ MainStart
    \/ MainItem
    \/ MainInitCall
    \/ MainInitSettled
    \/ MainSearchReturns
    \/ MainSearchThrows
    \/ MainPush
    \/ MainPushFails
    \/ MainCloseCall
    \/ MainCloseReturned
    \/ MainDelayDone
    \/ MainRecord
    \/ MainRecordFails

(***************************************************************************)
(* Place id resolution: the chain of strategies in extractBusinesses       *)
(***************************************************************************)
\* A string is a sequence of tokens, each token a run of characters that the
\* patterns of the chain treat alike; <<>> is the empty string and null.
\* longest href and attribute value, in tokens
MaxHref == 3

HrefTokens == {"/place/n/", "!1s", "!19s", "ChI", "0x1:0x2", "!3d1!4d2", "?", "x"}

\* the tokens of the character class [^/?]
NoSlashNoQuery == {"!1s", "!19s", "ChI", "0x1:0x2", "!3d1!4d2", "x"}
\* the tokens of the character class [^!&?]
NoBangNoQuery == {"/place/n/", "ChI", "0x1:0x2", "x"}
NoQueryMark == HrefTokens \ {"?"}

\* the longest run of tokens of class from position p of str on
RECURSIVE RunFrom(_, _, _)
RunFrom(str, p, class) ==
    IF p > Len(str) \/ str[p] \notin class THEN <<>>
    ELSE <<str[p]>> \o RunFrom(str, p + 1, class)

\* the least element of a non-empty set of positions
Leftmost(ps) == CHOOSE p \in ps : \A q \in ps : p <= q

\* str.split('?')[0]
SplitQuery(str) == RunFrom(str, 1, NoQueryMark)

\* str.startsWith('ChI')
StartsWithChI(str) == str # <<>> /\ str[1] = "ChI"

\* href.match(/\/place\/[^/]+\/([^/?]+)/): the capture group of the leftmost match
PlaceUrlMatch(href) ==
    LET ps == {p \in DOMAIN href : href[p] = "/place/n/" /\ RunFrom(href, p + 1, NoSlashNoQuery) # <<>>}
    IN  IF ps = {} THEN <<>> ELSE RunFrom(href, Leftmost(ps) + 1, NoSlashNoQuery)

\* href.match(/[!&]1s(ChI[^!&?]+)/) and href.match(/!19s(ChI[^!&?]+)/)
DataMatch(href, key) ==
    LET ps == {p \in DOMAIN href : /\ href[p] = key
                                   /\ p + 1 <= Len(href) /\ href[p + 1] = "ChI"
                                   /\ RunFrom(href, p + 2, NoBangNoQuery) # <<>>}
    IN  IF ps = {} THEN <<>> ELSE <<"ChI">> \o RunFrom(href, Leftmost(ps) + 2, NoBangNoQuery)

\* href.match(/[!&]1s(0x[0-9a-f]+:0x[0-9a-f]+)/)
HexMatch(href) ==
    IF \E p \in DOMAIN href : href[p] = "!1s" /\ p + 1 <= Len(href) /\ href[p + 1] = "0x1:0x2"
      THEN <<"0x1:0x2">> ELSE <<>>

\* a || b || ... over attribute values
RECURSIVE FirstTruthy(_, _)
FirstTruthy(values, j) ==
    IF j > Len(values) THEN <<>>
    ELSE IF values[j] # <<>> THEN values[j]
    ELSE FirstTruthy(values, j + 1)

DigitChars == <<"0", "1", "2", "3", "4", "5", "6", "7", "8", "9", "a", "b", "c", "d", "e", "f",
                "g", "h", "i", "j", "k", "l", "m", "n", "o", "p", "q", "r", "s", "t", "u", "v",
                "w", "x", "y", "z">>

\* n.toString(radix) for n >= 0
RECURSIVE NumToString(_, _)
NumToString(n, radix) ==
    IF n < radix THEN <<DigitChars[n + 1]>>
    ELSE NumToString(n \div radix, radix) \o <<DigitChars[(n % radix) + 1]>>

\* hash = ((hash << 5) - hash) + charCode over the characters from position j
\* on (no string of the model is long enough to leave the 32-bit range)
RECURSIVE HashFrom(_, _, _)
HashFrom(codes, j, hash) ==
    IF j > Len(codes) THEN hash
    ELSE HashFrom(codes, j + 1, (hash * 32 - hash) + codes[j])

Abs(n) == IF n < 0 THEN 0 - n ELSE n

\* the character codes of `${name}_${coordMatch[1]}_${coordMatch[2]}`
UniqueStr(name) == name \o <<95, 49, 95, 50>>

LastStrategy == 7

\* the mutant: a data attribute is taken whatever it starts with
DataAttrStrategyAny(link) ==
    LET dataPid == FirstTruthy(link.attrs, 1)
        parentDataPid == FirstTruthy(link.parentAttrs, 1)
    IN  IF dataPid # <<>> THEN SplitQuery(dataPid)
        ELSE IF StartsWithChI(parentDataPid) THEN SplitQuery(parentDataPid)
        ELSE <<>>

\* the data attributes of the link (data-pid, data-place-id, data-value), then
\* of its parent element (data-pid, data-place-id)
DataAttrStrategy(link) ==
    LET dataPid == FirstTruthy(link.attrs, 1)
        parentDataPid == FirstTruthy(link.parentAttrs, 1)
    IN  IF StartsWithChI(dataPid) THEN SplitQuery(dataPid)
        ELSE IF StartsWithChI(parentDataPid) THEN SplitQuery(parentDataPid)
        ELSE <<>>

\* the strategies of the chain, in order; each gives <<>> when it finds nothing
PlaceIdStrategy(k, link) ==
    CASE k = 1 -> LET m == PlaceUrlMatch(link.href)
                  IN  IF StartsWithChI(m) THEN SplitQuery(m) ELSE <<>>
      [] k = 2 -> SplitQuery(DataMatch(link.href, "!1s"))
      [] k = 3 -> SplitQuery(DataMatch(link.href, "!19s"))
      [] k = 4 -> DataAttrStrategy(link)
      [] k = 5 -> IF HexMatch(link.href) # <<>> THEN <<"hex_">> \o HexMatch(link.href) ELSE <<>>
      [] k = 6 -> IF link.name # <<>> /\ "!3d1!4d2" \in {link.href[p] : p \in DOMAIN link.href}
                    THEN <<"generated_">> \o NumToString(Abs(HashFrom(UniqueStr(link.name), 1, 0)), 36)
                    ELSE <<>>
      [] OTHER -> <<"fallback_">> \o NumToString(link.index, 10) \o <<"_">>
                      \o NumToString(link.now, 10)

\* if (!placeId) { ... } for the strategies from k on, then the final cleanup
RECURSIVE ResolveFrom(_, _, _, _)
ResolveFrom(k, link, placeId, by) ==
    IF k > LastStrategy
      THEN [placeId |-> IF "?" \in {placeId[p] : p \in DOMAIN placeId}
                          THEN SplitQuery(placeId) ELSE placeId,
            by |-> by]
    ELSE IF placeId = <<>> /\ PlaceIdStrategy(k, link) # <<>>
      THEN ResolveFrom(k + 1, link, PlaceIdStrategy(k, link), k)
    ELSE ResolveFrom(k + 1, link, placeId, by)

\* let placeId = null; the chain; the final cleanup
ResolvePlaceId(link) == ResolveFrom(1, link, <<>>, 0)

(***************************************************************************)
(* SpecPlaceId: the chain applied to any link                              *)
(***************************************************************************)
Hrefs == SeqsUpTo(HrefTokens, MaxHref)
AttrValues == {<<>>, <<"x">>, <<"ChI", "?", "x">>}
\* textContent of the name element, trimmed, as character codes
LinkNames == {<<>>, <<65>>}

ParentAttrValues == {<<>>, <<"ChI", "?", "x">>}

ChainLinks == [href : Hrefs, attrs : [1..3 -> AttrValues], parentAttrs : [1..2 -> ParentAttrValues],
               name : LinkNames, index : {0}, now : {17}]

UtilIdle ==
    /\ u_fn = ""
    /\ u_arg = <<>>
    /\ u_out = <<>>

\* the page script resolves the identity of one link
resolvePlaceId ==
    /\ u_fn = ""
    /\ u_fn' = "placeId"
    /\ u_out' = ResolvePlaceId(u_arg)
    /\ UNCHANGED u_arg
    /\ UNCHANGED <<retryVars, sessionVars, batchVars, cfgVars, searchVars, scrollVars, multiVars, mainVars, extractorVars, callVars>>

NextPlaceId == resolvePlaceId

(***************************************************************************)
(* SpecEmails: filterValidEmails applied to any list of addresses          *)
(***************************************************************************)
\* most addresses in one list
MaxEmails == 2

LocalParts == {<<>>, <<"info">>, <<"Info">>, <<"NoReply">>, <<"no", "-", "reply">>,
               <<"info", "!">>, <<"a", ".", "1">>}
DomainParts == {<<"shop">>, ShopCom, <<"shop", ".", "a">>, <<"shop", "!", ".", "com">>,
                <<"Example", ".", "com">>, <<"my", "example", ".", "com">>,
                <<"mail", ".", "sentry", ".", "io">>, <<"noreply", "-", "1", ".", "com">>}

Addresses ==
    {Email(local, domain) : local \in LocalParts, domain \in DomainParts}
        \cup {<<"info">>, Email(<<"info">>, Email(<<"shop">>, ShopCom))}

\* this.filterValidEmails(emails)
filterEmails ==
    /\ u_fn = ""
    /\ u_fn' = "filterValidEmails"
    /\ u_out' = filterValidEmails(u_arg)
    /\ UNCHANGED u_arg
    /\ UNCHANGED <<retryVars, sessionVars, batchVars, cfgVars, searchVars, scrollVars, multiVars, mainVars, extractorVars, callVars>>

NextEmails == filterEmails

(***************************************************************************)
(* dataCleaners: cleanUnicodeText, validateAddress, cleanAddress           *)
(***************************************************************************)
\* A text is a sequence of characters, each standing for its class: "4" a
\* digit, "zw" a zero-width character, "⋅" the separator of the opening
\* hours; no text of the model spells the name of a country.
MaxText == 5

TextChars == {"4", ".", " ", "(", ")", ",", "zw", "⋅"}

\* str.trim()
RECURSIVE TrimStart(_)
TrimStart(str) == IF str # <<>> /\ Head(str) = " " THEN TrimStart(Tail(str)) ELSE str

RECURSIVE TrimEnd(_)
TrimEnd(str) ==
    IF str # <<>> /\ str[Len(str)] = " " THEN TrimEnd(SubSeq(str, 1, Len(str) - 1)) ELSE str

Trim(str) == TrimEnd(TrimStart(str))

\* str.replace(/\s+/g, replacement)
RECURSIVE ReplaceSpaces(_, _)
ReplaceSpaces(str, replacement) ==
    IF str = <<>> THEN <<>>
    ELSE IF Head(str) = " "
      THEN replacement \o ReplaceSpaces(TrimStart(str), replacement)
    ELSE <<Head(str)>> \o ReplaceSpaces(Tail(str), replacement)

\* the control, private-use and zero-width characters are removed, the text
\* is trimmed and runs of white space become one space
cleanUnicodeText(text) ==
    ReplaceSpaces(Trim(SelectSeq(text, LAMBDA c : c # "zw")), <<" ">>)

\* str.replace(/⋅.*$/i, '')
RECURSIVE StripFrom(_, _)
StripFrom(str, mark) ==
    IF str = <<>> \/ Head(str) = mark THEN <<>>
    ELSE <<Head(str)>> \o StripFrom(Tail(str), mark)

\* validateAddress, exported as normalizeAddress too
validateAddress(address) ==
    LET cleaned == cleanUnicodeText(address)
    IN  IF address = <<>> \/ Len(cleaned) < 5 THEN <<>>
        ELSE Trim(StripFrom(cleaned, "⋅"))

\* str.match(/^[\d.]+\s*\([0-9,]+\)$/) with the characters allowed in the brackets
RatingMatch(str, counted) ==
    \E spaces, open \in DOMAIN str :
        /\ 1 < spaces /\ spaces <= open /\ open + 1 < Len(str)
        /\ \A j \in 1..(spaces - 1) : str[j] \in {"4", "."}
        /\ \A j \in spaces..(open - 1) : str[j] = " "
        /\ str[open] = "("
        /\ \A j \in (open + 1)..(Len(str) - 1) : str[j] \in counted
        /\ str[Len(str)] = ")"

cleanAddress(address) ==
    IF address = <<>> \/ RatingMatch(address, {"4", ","}) THEN <<>>
    ELSE ReplaceSpaces(Trim(address), <<>>)

(***************************************************************************)
(* SpecAddress: the two address cleaners applied to any text               *)
(***************************************************************************)
applyCleanAddress ==
    /\ u_fn = ""
    /\ u_fn' = "cleanAddress"
    /\ u_out' = cleanAddress(u_arg)
    /\ UNCHANGED u_arg
    /\ UNCHANGED <<retryVars, sessionVars, batchVars, cfgVars, searchVars, scrollVars, multiVars, mainVars, extractorVars, callVars>>

\* business.address = validateAddress(details.address)
applyValidateAddress ==
    /\ u_fn = ""
    /\ u_fn' = "validateAddress"
    /\ u_out' = validateAddress(u_arg)
    /\ UNCHANGED u_arg
    /\ UNCHANGED <<retryVars, sessionVars, batchVars, cfgVars, searchVars, scrollVars, multiVars, mainVars, extractorVars, callVars>>

NextAddress ==
    \/ applyCleanAddress
    \/ applyValidateAddress

(***************************************************************************)
(* dataCleaners: normalizeRating                                           *)
(***************************************************************************)
\* A JavaScript value is null, a string (a sequence of characters) or a
\* number; a number is kept in thousandths, NaN apart.
\* longest string handed to normalizeRating
MaxRatingLen == 4
\* one as a number of thousandths
Milli == 10 * 100

JsNull == [type |-> "null"]
JsString(chars) == [type |-> "string", chars |-> chars]
JsNumber(milli) == [type |-> "number", milli |-> milli]
NaN == [type |-> "NaN"]

RatingChars == {"0", "4", "5", ".", "-", "x", " "}
DigitValue(c) == CASE c = "0" -> 0 [] c = "4" -> 4 [] c = "5" -> 5

\* the longest run of digits from position p of chars on
RECURSIVE DigitRun(_, _)
DigitRun(chars, p) ==
    IF p > Len(chars) \/ chars[p] \notin {"0", "4", "5"} THEN <<>>
    ELSE <<chars[p]>> \o DigitRun(chars, p + 1)

\* the integer a run of digits writes
RECURSIVE IntOf(_)
IntOf(digits) ==
    IF digits = <<>> THEN 0
    ELSE IntOf(SubSeq(digits, 1, Len(digits) - 1)) * 10 + DigitValue(digits[Len(digits)])

\* the thousandths a run of digits after the point writes (the digits after
\* the third are below the unit)
FractionOf(digits) ==
    LET digit(j) == IF j <= Len(digits) THEN DigitValue(digits[j]) ELSE 0
    IN  digit(1) * 100 + digit(2) * 10 + digit(3)

\* parseFloat(string): leading white space, a sign, digits, a point and digits;
\* NaN when there is no digit
ParseFloat(chars) ==
    LET str == TrimStart(chars)
        negative == str # <<>> /\ str[1] = "-"
        start == IF negative THEN 2 ELSE 1
        whole == DigitRun(str, start)
        point == start + Len(whole)
        fraction == IF point <= Len(str) /\ str[point] = "." THEN DigitRun(str, point + 1) ELSE <<>>
        magnitude == IntOf(whole) * Milli + FractionOf(fraction)
    IN  IF whole = <<>> /\ fraction = <<>> THEN NaN
        ELSE JsNumber(IF negative THEN 0 - magnitude ELSE magnitude)

\* the mutant: no upper limit
ClampBelow(milli) == Max(0, milli)

\* Math.max(0, Math.min(5, num))
Clamp(milli) == Max(0, Min(5 * Milli, milli))

\* Math.round(normalized * 10) / 10: to the nearest tenth, a half upwards
RoundTenth(milli) == ((milli + 50) \div 100) * 100

normalizeRating(rating) ==
    LET falsy == \/ rating.type \in {"null", "NaN"}
                 \/ rating.type = "string" /\ rating.chars = <<>>
        num == IF rating.type = "string" THEN ParseFloat(rating.chars) ELSE rating
    IN  IF falsy THEN JsNumber(0)
        ELSE IF num.type = "NaN" THEN JsNumber(0)
        ELSE JsNumber(RoundTenth(Clamp(num.milli)))

(***************************************************************************)
(* SpecRating: normalizeRating applied to any value, then to its result    *)
(***************************************************************************)
Ratings ==
    {JsNull} \cup {JsString(chars) : chars \in SeqsUpTo(RatingChars, MaxRatingLen)}
             \cup {JsNumber(milli) : milli \in (0 - Milli)..(6 * Milli)}

applyNormalizeRating ==
    /\ u_fn = ""
    /\ u_fn' = "normalizeRating"
    /\ u_out' = normalizeRating(u_arg)
    /\ UNCHANGED u_arg
    /\ UNCHANGED <<retryVars, sessionVars, batchVars, cfgVars, searchVars, scrollVars, multiVars, mainVars, extractorVars, callVars>>

\* the result is normalized again
applyNormalizeRatingAgain ==
    /\ u_fn = "normalizeRating"
    /\ u_fn' = "normalizeRating twice"
    /\ u_out' = [once |-> u_out, twice |-> normalizeRating(u_out)]
    /\ UNCHANGED u_arg
    /\ UNCHANGED <<retryVars, sessionVars, batchVars, cfgVars, searchVars, scrollVars, multiVars, mainVars, extractorVars, callVars>>

NextRating ==
    \/ applyNormalizeRating
    \/ applyNormalizeRatingAgain

(***************************************************************************)
(* SpecScroll: one call of performScrolling, for any maxScrolls of the     *)
(* documented range and any sequence of observed listing counts            *)
(***************************************************************************)
\* the largest maxScrolls a call is configured with
MaxIterations == 10

\* the counts an iteration can observe: the list grows, stalls, shrinks or
\* reaches the ceiling
ObservedCounts == {0, 1, CountCeiling}

\* performScrolling(page) is entered: the locals are initialised and the loop
\* condition i < maxScrolls is tested for i = 0
ScrollCall ==
    /\ u_fn = ""
    /\ u_fn' = "performScrolling"
    /\ u_arg' = config.maxScrolls
    /\ u_out' = IF 0 < config.maxScrolls THEN "loop" ELSE "returned"
    /\ ScrollEnter
    /\ UNCHANGED <<retryVars, sessionVars, batchVars, cfgVars, searchVars, multiVars, mainVars, extractorVars, callVars>>

\* one iteration of the loop: the scroll script, the wait and the count
ScrollLoop ==
    /\ u_fn = "performScrolling"
    /\ u_out = "loop"
    /\ \E count \in ObservedCounts : \E more \in BOOLEAN :
          /\ ScrollStep(count, more)
          /\ u_out' = IF more THEN "loop" ELSE "returned"
    /\ UNCHANGED <<u_fn, u_arg>>
    /\ UNCHANGED <<retryVars, sessionVars, batchVars, cfgVars, searchVars, multiVars, mainVars, extractorVars, callVars>>

\* a page evaluation of the iteration rejects: performScrolling throws
ScrollEvaluateFails ==
    /\ u_fn = "performScrolling"
    /\ u_out = "loop"
    /\ u_out' = "threw"
    /\ UNCHANGED <<u_fn, u_arg>>
    /\ UNCHANGED <<retryVars, sessionVars, batchVars, cfgVars, searchVars, scrollVars, multiVars, mainVars, extractorVars, callVars>>

NextScroll ==
    \/ ScrollCall
    \/ ScrollLoop
    \/ ScrollEvaluateFails

(***************************************************************************)
(* Caching email harvester: EmailExtractor.extractEmailsFromWebsite        *)
(***************************************************************************)
\* most valid addresses a site shows
MaxFound == 4
\* most calls made on one instance
MaxCalls == 3
\* largest maxRetries an instance is configured with
MaxExtractRetries == 2

DefaultMaxEmailsPerSite == 3
DefaultExtractRetries == 1

\* this.config = { maxEmailsPerSite: config.maxEmailsPerSite || 3, ...,
\*                 maxRetries: config.maxRetries || 1, ... }
ExtractorConstructor(cfg) ==
    [maxEmailsPerSite |-> OrNum(cfg.maxEmailsPerSite, DefaultMaxEmailsPerSite),
     maxRetries       |-> OrNum(cfg.maxRetries, DefaultExtractRetries)]

\* the sites the businesses link to
ExtractUrls == {"shop.com", "cafe.com", "maps.google.com/x"}

\* url.includes('google.com') || url.includes('goo.gl')
GoogleDomain(url) == url \in {"maps.google.com/x", "goo.gl/y"}

\* what filterValidEmails leaves of the addresses of a site: the first, second,
\* ... valid address found
ValidEmailLists == {[j \in 1..n |-> j] : n \in 0..MaxFound}

\* this.emailCache.set(url, emails)
CacheSet(cache, url, emails) ==
    [u \in DOMAIN cache \cup {url} |-> IF u = url THEN emails ELSE cache[u]]

ExtractorInit ==
    /\ ex_config = ExtractorConstructor([maxEmailsPerSite |-> 0, maxRetries |-> 0])
    /\ ex_visitedUrls = {}
    /\ ex_emailCache = <<>>
    /\ ex_pc = "idle"
    /\ ex_url = ""
    /\ ex_retries = 0
    /\ ex_validEmails = <<>>
    /\ ex_opened = FALSE
    /\ ex_navs = [url \in ExtractUrls |-> 0]
    /\ ex_returns = <<>>

\* return emails: the call completes and its locals are gone
ExtractReturn(url, emails, opened) ==
    /\ ex_returns' = Append(ex_returns, [url |-> url, emails |-> emails, opened |-> opened])
    /\ ex_pc' = "idle"
    /\ ex_url' = ""
    /\ ex_retries' = 0
    /\ ex_validEmails' = <<>>
    /\ ex_opened' = FALSE

\* entry of extractEmailsFromWebsite up to the first await: the cache, the
\* visited set, the Google domains, then the while loop
ExtractEnter(url) ==
    IF url \in DOMAIN ex_emailCache
      THEN /\ ExtractReturn(url, ex_emailCache[url], FALSE)
           /\ UNCHANGED <<ex_visitedUrls, ex_emailCache>>
    ELSE IF url \in ex_visitedUrls \/ GoogleDomain(url)
      THEN /\ ExtractReturn(url, <<>>, FALSE)
           /\ UNCHANGED <<ex_visitedUrls, ex_emailCache>>
    ELSE /\ ex_visitedUrls' = ex_visitedUrls \cup {url}
         /\ UNCHANGED ex_emailCache
         /\ IF 0 < ex_config.maxRetries
              THEN /\ ex_pc' = "attempt"
                   /\ ex_url' = url
                   /\ ex_retries' = 0
                   /\ UNCHANGED <<ex_validEmails, ex_opened, ex_returns>>
              ELSE ExtractReturn(url, <<>>, FALSE)

\* catch (error): retries++; the cache gets [] and the call returns [] when no
\* attempt is left, else the backoff is waited and the loop goes on
ExtractCatch(opened) ==
    /\ IF ex_retries + 1 >= ex_config.maxRetries
         THEN /\ ex_emailCache' = CacheSet(ex_emailCache, ex_url, <<>>)
              /\ ExtractReturn(ex_url, <<>>, opened)
         ELSE /\ ex_retries' = ex_retries + 1
              /\ ex_pc' = "attempt"
              /\ ex_opened' = opened
              /\ ex_validEmails' = <<>>
              /\ UNCHANGED <<ex_emailCache, ex_url, ex_returns>>

\* await newPage.close() resolves: return validEmails.slice(0, maxEmailsPerSite)
ExtractClosed ==
    /\ ex_pc = "closing"
    /\ ExtractReturn(ex_url, Slice0(ex_validEmails, ex_config.maxEmailsPerSite), TRUE)
    /\ UNCHANGED <<ex_config, ex_visitedUrls, ex_emailCache, ex_navs>>
    /\ UNCHANGED <<retryVars, sessionVars, batchVars, cfgVars, searchVars, scrollVars, multiVars,
                   mainVars, utilVars, callVars>>

(***************************************************************************)
(* SpecExtractor: extractEmailsFromWebsite called one call after the other *)
(* on one EmailExtractor instance                                          *)
(***************************************************************************)
extractEmailsFromWebsite ==
    /\ ex_pc = "idle"
    /\ Len(ex_returns) < MaxCalls
    /\ \E url \in ExtractUrls : ExtractEnter(url)
    /\ UNCHANGED <<ex_config, ex_navs>>
    /\ UNCHANGED <<retryVars, sessionVars, batchVars, cfgVars, searchVars, scrollVars, multiVars,
                   mainVars, utilVars, callVars>>

\* the page is opened, the site loaded and its addresses filtered (with the
\* contact page when the main page shows none): this.emailCache.set(url, validEmails)
ExtractFetched ==
    /\ ex_pc = "attempt"
    /\ \E validEmails \in ValidEmailLists :
          /\ ex_validEmails' = validEmails
          /\ ex_emailCache' = CacheSet(ex_emailCache, ex_url, validEmails)
    /\ ex_navs' = [ex_navs EXCEPT ![ex_url] = @ + 1]
    /\ ex_opened' = TRUE
    /\ ex_pc' = "closing"
    /\ UNCHANGED <<ex_config, ex_visitedUrls, ex_url, ex_retries, ex_returns>>
    /\ UNCHANGED <<retryVars, sessionVars, batchVars, cfgVars, searchVars, scrollVars, multiVars,
                   mainVars, utilVars, callVars>>

\* newPage() rejects: the attempt ends before any navigation
ExtractNewPageFails ==
    /\ ex_pc = "attempt"
    /\ ExtractCatch(ex_opened)
    /\ UNCHANGED <<ex_config, ex_visitedUrls, ex_navs>>
    /\ UNCHANGED <<retryVars, sessionVars, batchVars, cfgVars, searchVars, scrollVars, multiVars,
                   mainVars, utilVars, callVars>>

\* goto or the evaluation rejects on the page the attempt opened
ExtractLoadFails ==
    /\ ex_pc = "attempt"
    /\ ex_navs' = [ex_navs EXCEPT ![ex_url] = @ + 1]
    /\ ExtractCatch(TRUE)
    /\ UNCHANGED <<ex_config, ex_visitedUrls>>
    /\ UNCHANGED <<retryVars, sessionVars, batchVars, cfgVars, searchVars, scrollVars, multiVars,
                   mainVars, utilVars, callVars>>

\* await newPage.close() rejects after the cache was written
ExtractCloseFails ==
    /\ ex_pc = "closing"
    /\ ExtractCatch(TRUE)
    /\ UNCHANGED <<ex_config, ex_visitedUrls, ex_navs>>
    /\ UNCHANGED <<retryVars, sessionVars, batchVars, cfgVars, searchVars, scrollVars, multiVars,
                   mainVars, utilVars, callVars>>

NextExtractor ==
    \/ extractEmailsFromWebsite
    \/ ExtractFetched
    \/ ExtractClosed
    \/ ExtractNewPageFails
    \/ ExtractLoadFails
    \/ ExtractCloseFails

(***************************************************************************)
(* SpecCalls: search(query) called by several callers on one scraper       *)
(* instance, the calls overlapping in any way                              *)
(***************************************************************************)
\* callers that call search on the instance
NumCallers == 2
Callers == 1..NumCallers

\* the query arguments
CallQueries == {<<"cafe">>, <<"bar">>}

\* the page a caller's call opens (page 0 is the browser's blank page)
CallPageNo(c) == c

\* a caller that has no call in flight
CallIdle == [pc |-> "idle", query |-> NoQuery, page |-> 0, url |-> NoQuery, result |-> NoQuery]

CallsInit == sr_calls = [c \in Callers |-> CallIdle]

\* `https://www.google.com/maps/search/${encodeURIComponent(this.config.searchQuery)}...`:
\* the search URL is written as the query it searches for
SearchUrlOf(cfg) == cfg.searchQuery

\* search(query) up to its first await: this.config.searchQuery = query, the
\* check, then browser.newPage() is started
CallSearch(c, query) ==
    /\ sr_calls[c].pc = "idle"
    /\ config' = IF query # NoQuery THEN [config EXCEPT !.searchQuery = query] ELSE config
    /\ sr_calls' = [sr_calls EXCEPT ![c] =
          [CallIdle EXCEPT !.query = query,
                           !.pc = IF config'.searchQuery = NoQuery /\ config'.directUrl = ""
                                    THEN "threw" ELSE "newPage"]]
    /\ UNCHANGED results
    /\ UNCHANGED <<retryVars, sessionVars, batchVars, searchVars, scrollVars, multiVars, mainVars,
                   utilVars, extractorVars>>

\* const page = await this.browser.newPage() resolves
CallNewPage(c) ==
    /\ sr_calls[c].pc = "newPage"
    /\ openPages' = openPages \cup {<<browser, CallPageNo(c)>>}
    /\ sr_calls' = [sr_calls EXCEPT ![c].pc = "setup", ![c].page = CallPageNo(c)]
    /\ UNCHANGED sessionNoPages
    /\ UNCHANGED <<retryVars, batchVars, cfgVars, searchVars, scrollVars, multiVars, mainVars,
                   utilVars, extractorVars>>

\* setViewport, evaluateOnNewDocument and setRequestInterception have resolved:
\* searchUrl is built from this.config.searchQuery and the navigation starts
CallSetup(c) ==
    /\ sr_calls[c].pc = "setup"
    /\ sr_calls' = [sr_calls EXCEPT ![c].pc = "nav", ![c].url = SearchUrlOf(config)]
    /\ UNCHANGED <<retryVars, sessionVars, batchVars, cfgVars, searchVars, scrollVars, multiVars,
                   mainVars, utilVars, extractorVars>>

\* the page has loaded searchUrl and its listings are collected: this.results =
\* businesses; return businesses; finally { await page.close() }
CallReturns(c) ==
    /\ sr_calls[c].pc = "nav"
    /\ sr_calls' = [sr_calls EXCEPT ![c].pc = "returned", ![c].result = sr_calls[c].url]
    /\ results' = <<[query |-> sr_calls[c].url]>>
    /\ openPages' = openPages \ {<<browser, sr_calls[c].page>>}
    /\ UNCHANGED config
    /\ UNCHANGED sessionNoPages
    /\ UNCHANGED <<retryVars, batchVars, searchVars, scrollVars, multiVars, mainVars,
                   utilVars, extractorVars>>

\* newPage(), the setup, the navigation or a later phase rejects: catch { throw
\* error } finally { await page.close() }
CallThrows(c) ==
    /\ sr_calls[c].pc \in {"newPage", "setup", "nav"}
    /\ sr_calls' = [sr_calls EXCEPT ![c].pc = "threw"]
    /\ openPages' = openPages \ {<<browser, sr_calls[c].page>>}
    /\ UNCHANGED sessionNoPages
    /\ UNCHANGED <<retryVars, batchVars, cfgVars, searchVars, scrollVars, multiVars, mainVars,
                   utilVars, extractorVars>>

\* the caller has taken the outcome of its call
CallLeave(c) ==
    /\ sr_calls[c].pc \in {"returned", "threw"}
    /\ sr_calls' = [sr_calls EXCEPT ![c] = CallIdle]
    /\ UNCHANGED <<retryVars, sessionVars, batchVars, cfgVars, searchVars, scrollVars, multiVars,
                   mainVars, utilVars, extractorVars>>

searchCalled == \E c \in Callers, query \in CallQueries \cup {NoQuery} : CallSearch(c, query)
searchPageOpened == \E c \in Callers : CallNewPage(c)
searchNavigates == \E c \in Callers : CallSetup(c)
searchReturns == \E c \in Callers : CallReturns(c)
searchThrows == \E c \in Callers : CallThrows(c)
searchLeft == \E c \in Callers : CallLeave(c)

NextCalls ==
    \/ searchCalled
    \/ searchPageOpened
    \/ searchNavigates
    \/ searchReturns
    \/ searchThrows
    \/ searchLeft

(***************************************************************************)
(* Specifications                                                          *)
(***************************************************************************)
\* the entry point is not running
MainIdle ==
    /\ MainInit
    /\ mn_input = [searchQueries |-> <<>>, startUrls |-> <<>>,
                   maxResults |-> Absent, maxScrolls |-> Absent]

\* the parts of the scraper a specification does not exercise
ScraperInit == config = Constructor([searchQuery |-> <<>>, directUrl |-> "", maxResults |-> 0,
                                     maxScrolls |-> 0, scrapeDetails |-> FALSE,
                                     scrapeEmails |-> FALSE])
               /\ SearchInit /\ ScrollInit /\ MultiInit

InitRetry == UtilIdle /\ RetryInit /\ SessionInit /\ BatchInit /\ ExtractorInit /\ CallsInit /\ ScraperInit /\ MainIdle

SpecRetry == InitRetry /\ [][NextRetry]_vars

InitSession == UtilIdle /\ SessionInit /\ RetryInit /\ BatchInit /\ ExtractorInit /\ CallsInit /\ ScraperInit /\ MainIdle

InitBatch == UtilIdle /\ SessionOpen /\ RetryInit /\ BatchInit /\ ExtractorInit /\ CallsInit /\ ScraperInit /\ MainIdle

InitSearch ==
    /\ SessionLaunched /\ RetryInit /\ BatchInit /\ ExtractorInit /\ CallsInit /\ SearchInit /\ ScrollInit /\ MultiInit
    /\ MainIdle /\ UtilIdle
    /\ config \in {Constructor(in) : in \in Inputs}

SpecSearch == InitSearch /\ [][NextSearch]_vars

InitMulti ==
    /\ SessionLaunched /\ RetryInit /\ BatchInit /\ ExtractorInit /\ CallsInit /\ SearchInit /\ ScrollInit /\ MultiInit
    /\ MainIdle /\ UtilIdle
    /\ config \in {Constructor(in) : in \in ListingInputs}

SpecMulti == InitMulti /\ [][NextMulti]_vars

SpecBatch == InitBatch /\ [][NextBatch]_vars

SpecSession == InitSession /\ [][NextSession]_vars

InitMain ==
    /\ SessionInit /\ RetryInit /\ BatchInit /\ ExtractorInit /\ CallsInit /\ ScraperInit
    /\ MainInit /\ UtilIdle
    /\ mn_input \in MainInputs

SpecMain == InitMain /\ [][NextMain]_vars

InitPlaceId ==
    /\ SessionInit /\ RetryInit /\ BatchInit /\ ExtractorInit /\ CallsInit /\ ScraperInit /\ MainIdle
    /\ u_fn = ""
    /\ u_arg \in ChainLinks
    /\ u_out = <<>>

SpecPlaceId == InitPlaceId /\ [][NextPlaceId]_vars

InitEmails ==
    /\ SessionInit /\ RetryInit /\ BatchInit /\ ExtractorInit /\ CallsInit /\ ScraperInit /\ MainIdle
    /\ u_fn = ""
    /\ u_arg \in SeqsUpTo(Addresses, MaxEmails)
    /\ u_out = <<>>

SpecEmails == InitEmails /\ [][NextEmails]_vars

InitAddress ==
    /\ SessionInit /\ RetryInit /\ BatchInit /\ ExtractorInit /\ CallsInit /\ ScraperInit /\ MainIdle
    /\ u_fn = ""
    /\ u_arg \in SeqsUpTo(TextChars, MaxText)
    /\ u_out = <<>>

SpecAddress == InitAddress /\ [][NextAddress]_vars

InitRating ==
    /\ SessionInit /\ RetryInit /\ BatchInit /\ ExtractorInit /\ CallsInit /\ ScraperInit /\ MainIdle
    /\ u_fn = ""
    /\ u_arg \in Ratings
    /\ u_out = <<>>

SpecRating == InitRating /\ [][NextRating]_vars

InitScroll ==
    /\ SessionLaunched /\ RetryInit /\ BatchInit /\ ExtractorInit /\ CallsInit /\ SearchInit /\ ScrollInit /\ MultiInit
    /\ MainIdle /\ UtilIdle
    /\ config \in {Constructor([searchQuery |-> <<"cafe">>, directUrl |-> "", maxResults |-> 0,
                                 maxScrolls |-> n, scrapeDetails |-> FALSE,
                                 scrapeEmails |-> FALSE]) : n \in 1..MaxIterations}

SpecScroll == InitScroll /\ [][NextScroll]_vars

\* every iteration's timers and page evaluations settle
SpecScrollFair == SpecScroll /\ WF_vars(NextScroll)

InitExtractor ==
    /\ SessionLaunched /\ RetryInit /\ BatchInit /\ CallsInit /\ SearchInit /\ ScrollInit /\ MultiInit
    /\ MainIdle /\ UtilIdle
    /\ config = Constructor([searchQuery |-> <<>>, directUrl |-> "", maxResults |-> 0,
                             maxScrolls |-> 0, scrapeDetails |-> FALSE, scrapeEmails |-> FALSE])
    /\ ex_config \in {ExtractorConstructor([maxEmailsPerSite |-> 0, maxRetries |-> r]) :
                         r \in 0..MaxExtractRetries}
    /\ ex_visitedUrls = {}
    /\ ex_emailCache = <<>>
    /\ ex_pc = "idle"
    /\ ex_url = ""
    /\ ex_retries = 0
    /\ ex_validEmails = <<>>
    /\ ex_opened = FALSE
    /\ ex_navs = [url \in ExtractUrls |-> 0]
    /\ ex_returns = <<>>

SpecExtractor == InitExtractor /\ [][NextExtractor]_vars

InitCalls ==
    /\ SessionLaunched /\ RetryInit /\ BatchInit /\ ExtractorInit /\ CallsInit
    /\ SearchInit /\ ScrollInit /\ MultiInit /\ MainIdle /\ UtilIdle
    /\ config \in {Constructor([searchQuery |-> q, directUrl |-> "", maxResults |-> 0,
                                 maxScrolls |-> 0, scrapeDetails |-> FALSE,
                                 scrapeEmails |-> FALSE]) : q \in {NoQuery, <<"cafe">>}}

SpecCalls == InitCalls /\ [][NextCalls]_vars

(***************************************************************************)
(* Claims                                                                  *)
(***************************************************************************)
Failures(h) == {k \in 1..Len(h) : ~h[k].ok}

\* C3: a call of retryWithBackoff with maxAttempts >= 1 invokes the operation
\* at most maxAttempts times; no invocation follows a successful one and the
\* call returns the value of that first success; when the call throws, all
\* maxAttempts invocations have failed and the error thrown is the one of the
\* last invocation.
C3_RetryContract ==
    (rb_arg >= 1) =>
        /\ Len(rb_hist) <= rb_arg
        /\ \A k \in 1..Len(rb_hist) : rb_hist[k].ok => k = Len(rb_hist)
        /\ (rb_hist # <<>> /\ rb_hist[Len(rb_hist)].ok) =>
              /\ rb_pc \in {"returned", "idle"}
              /\ rb_result = rb_hist[Len(rb_hist)].val
        /\ rb_pc = "returned" =>
              /\ rb_hist # <<>>
              /\ rb_hist[Len(rb_hist)].ok
        /\ rb_pc = "thrown" =>
              /\ Len(rb_hist) = rb_arg
              /\ Failures(rb_hist) = 1..rb_arg
              /\ rb_result = rb_hist[rb_arg].val

\* a call that threw after two failures with different errors
C3_Witness ==
    /\ rb_pc = "thrown"
    /\ rb_arg >= 2
    /\ rb_hist[1].val # rb_hist[Len(rb_hist)].val

\* C6: init() fails when it is called on an instance that already holds a
\* browser (no close() in between): no browser is launched while this.browser
\* is set, so no launched process loses its handle to a second launch.
C6_InitTwiceFails == [][browser # 0 => launches' = launches]_vars

\* C7: close() never propagates an exception and, whichever of its steps
\* failed, this.browser is null once it has returned; a close() entered with a
\* null handle touches nothing.
C7_CloseContract ==
    /\ cl_pc \in {"idle", "pages", "closePages", "closeBrowser", "returned"}
    /\ cl_pc = "returned" => browser = 0
    /\ (cl_pc = "returned" /\ cl_entry = 0) => (cl_ops = 0 /\ ~cl_caught)

\* a close() whose browser.close() failed has returned, and a second close()
\* after it was a no-op
C7_Witness ==
    /\ cl_pc = "returned"
    /\ cl_entry # 0
    /\ cl_caught
    /\ cl_ops = 3

\* C9: extractEmailsBatch works through the businesses in consecutive batches
\* of batchSize: never more than batchSize fetches are in flight, every fetch
\* in flight belongs to the current batch, every business of an earlier batch
\* has settled and no business of a later batch has been started.
C9_BoundedBatches ==
    /\ Cardinality(InFlight) <= be_batchSize
    /\ be_i % be_batchSize = 0
    /\ \A k \in InFlight : be_pc = "batch" /\ k \in CurrentBatch
    /\ \A k \in DOMAIN be_slot :
          /\ k <= be_i => Settled(k)
          /\ k > be_i + be_batchSize => be_slot[k].st = "none"

\* a batch after the first has a fetch in flight
C9_Witness ==
    /\ be_pc = "batch"
    /\ be_i > 0
    /\ InFlight # {}

\* the emails the call owes business k: those of its own fetch, filtered
OwnEmails(k) ==
    IF NoExternalSite(be_businesses[k].website) \/ be_slot[k].err
      THEN <<>>
      ELSE filterValidEmails(be_slot[k].found)

\* C10: extractEmailsBatch never throws; it returns one record per business,
\* in input order; a business whose fetch failed has email = null and no
\* emails, and every other business has the (filtered) emails of its own fetch.
C10_FailureIsolated ==
    /\ be_pc # "threw"
    /\ be_pc = "returned" =>
          /\ Len(be_results) = Len(be_businesses)
          /\ \A k \in 1..Len(be_businesses) :
                /\ \A f \in {"placeId", "url", "address", "website"} :
                      be_results[k][f] = be_businesses[k][f]
                /\ be_results[k].emails = OwnEmails(k)
                /\ be_results[k].email =
                      (IF OwnEmails(k) = <<>> THEN Null ELSE OwnEmails(k)[1])

\* a call has returned in which one fetch failed, another business of the same
\* batch got emails and a business of a later batch got emails
C10_Witness ==
    /\ be_pc = "returned"
    /\ \E j, k, l \in 1..Len(be_businesses) :
          /\ j # k
          /\ {j, k} \subseteq BatchOf(0, Len(be_businesses), be_batchSize)
          /\ l > be_batchSize
          /\ be_slot[j].err
          /\ be_results[j].emails = <<>> /\ be_results[j].email = Null
          /\ be_results[k].emails # <<>>
          /\ be_results[l].emails # <<>>

\* the elements of a sequence
Range(s) == {s[k] : k \in DOMAIN s}

\* the position of a phase in the pipeline
PhaseRank(ph) ==
    CASE ph = "navigate" -> 1
      [] ph = "scroll"   -> 2
      [] ph = "extract"  -> 3
      [] ph = "enrich"   -> 4
      [] ph = "harvest"  -> 5

\* the phase the call is in
CurrentPhase == IF s_log = <<>> THEN "none" ELSE s_log[Len(s_log)]

\* C4: within one search call the phases are entered in the order navigate,
\* scroll, extract, enrich, harvest and never re-entered; the steps of a phase
\* are taken only while the call is in that phase; and the harvester is entered,
\* and a website fetch is in flight, only when the detail loop has gone through
\* every candidate.
C4_PhaseOrder ==
    /\ \A j \in 1..(Len(s_log) - 1) : PhaseRank(s_log[j]) < PhaseRank(s_log[j + 1])
    /\ rb_pc # "idle" => CurrentPhase \in {"navigate", "enrich"}
    /\ s_pc = "nav" => CurrentPhase = "navigate"
    /\ sc_counts # <<>> => CurrentPhase = "scroll"
    /\ s_extracted # <<>> => "extract" \in Range(s_log)
    /\ s_pc \in {"detailNav", "detailExtract"} => CurrentPhase = "enrich"
    /\ (be_pc # "idle" \/ InFlight # {}) =>
          /\ CurrentPhase = "harvest"
          /\ s_pc = "emails"
          /\ s_i = Len(s_businesses)
          /\ s_attempts = [k \in 1..Len(s_businesses) |-> k]

\* a fetch of the harvester is in flight after all five phases were entered in order
C4_Witness ==
    /\ s_pc = "emails"
    /\ InFlight # {}
    /\ s_log = <<"navigate", "scroll", "extract", "enrich", "harvest">>
    /\ Len(s_businesses) = 2

\* the page of the call in progress is open
SearchPageOpen == <<browser, SearchPageNo>> \in openPages

DetailLoopOver ==
    \/ s_pc = "emails"
    \/ s_pc \in {"finally", "returned", "threw"} /\ "enrich" \in Range(s_log)

\* C8: in scrapeBusinessDetails the candidates are attempted once each in list
\* order, all of them by the time the loop is over; a candidate whose
\* navigation or extraction failed keeps the record extractBusinesses made and
\* stays in the list; and a per-business failure never makes the call throw.
C8_DetailIsolation ==
    /\ s_attempts = [k \in 1..Len(s_attempts) |-> k]
    /\ Len(s_attempts) <= Len(s_businesses)
    /\ Len(s_businesses) = Len(s_extracted)
    /\ s_pc = "detailLoop" => Len(s_attempts) = s_i
    /\ DetailLoopOver => Len(s_attempts) = Len(s_businesses)
    /\ \A k \in s_failed : k \in Range(s_attempts) /\ s_businesses[k] = s_extracted[k]
    /\ s_failed # {} => s_error = 0
    /\ (s_pc = "returned" /\ s_failed # {}) => s_result = s_businesses

\* the first of two candidates failed, the second was enriched, the call returned both
C8_Witness ==
    /\ s_pc = "returned"
    /\ s_failed = {1}
    /\ s_attempts = <<1, 2>>
    /\ Len(s_result) = 2
    /\ s_result[1] = s_extracted[1]
    /\ s_result[2].address = "detail"

\* no two records of a list have the same placeId
Distinct(rs) == \A i, j \in DOMAIN rs : i # j => rs[i].placeId # rs[j].placeId

\* C1: the records extractBusinesses and search return, the records the
\* aggregator has merged and the records it returns have pairwise distinct
\* placeIds, whatever links the pages render.
C1_DistinctIdentities ==
    /\ Distinct(s_extracted)
    /\ Distinct(s_result)
    /\ Distinct(m_allResults)
    /\ Distinct(m_result)
    /\ Distinct(results)

\* a page rendered the same identifier twice among three usable links and the
\* search returned two records
C1_Witness ==
    /\ s_pc = "returned"
    /\ Len(s_links) = 3
    /\ \A k \in 1..3 : s_links[k].container /\ s_links[k].name
    /\ s_links[1].key # 0
    /\ s_links[2].key = s_links[1].key
    /\ Len(s_result) = 2

\* the positions of the rendered links that yield a record: the link is the
\* first with its identifier, and its container and name are found
Kept(links, now) ==
    {k \in DOMAIN links :
        /\ links[k].container /\ links[k].name
        /\ \A j \in 1..(k - 1) : PlaceIdOf(links[j], j, now) # PlaceIdOf(links[k], k, now)}

\* the placeIds of a list of records
IdsOf(rs) == {rs[j].placeId : j \in DOMAIN rs}

\* C2: with maxResults = N a search returns at most N records, namely the
\* records of the first N links that yield one, in scan order (as many as N
\* whenever that many links yield a record); the aggregator returns at most N
\* records, as many as N whenever its sub-searches returned N distinct
\* identities, all of them returned by a sub-search.
C2_CapAfterDedup ==
    /\ s_pc = "returned" =>
          /\ Len(s_result) <= config.maxResults
          /\ Len(s_result) = Min(config.maxResults, Cardinality(Kept(s_links, s_now)))
          /\ \A j \in DOMAIN s_result :
                /\ s_result[j].url \in Kept(s_links, s_now)
                /\ Cardinality({k \in Kept(s_links, s_now) : k < s_result[j].url}) = j - 1
    /\ m_pc = "returned" =>
          /\ Len(m_result) <= config.maxResults
          /\ Len(m_result) = Min(config.maxResults, Cardinality(m_returned))
          /\ IdsOf(m_result) \subseteq m_returned
          /\ results = m_result

\* three links, the second a duplicate of the first, and a cap of two: both
\* unique records are returned
C2_Witness ==
    /\ s_pc = "returned"
    /\ config.maxResults = 2
    /\ Len(s_links) = 3
    /\ Kept(s_links, s_now) = {1, 3}
    /\ Len(s_result) = 2
    /\ s_result[2].url = 3

\* a step of searchMultipleQueries starts a sub-search
SubSearchStarts == m_pc = "loop" /\ m_pc' = "sub"

\* C11: searchMultipleQueries starts its sub-searches at the loop head only,
\* for the region at position k of the list, k going up by one after each
\* sub-search and never otherwise (one sub-search at a time, in list order,
\* each region at most once); it starts none when the merged records have
\* reached maxResults; and it returns only when they have reached maxResults
\* or the list is exhausted.
C11_RegionOrder ==
    [][m_pc # "idle" =>
          /\ (s_pc = "idle" /\ s_pc' # "idle") => SubSearchStarts
          /\ SubSearchStarts =>
                /\ m_k' = m_k
                /\ m_k \in 1..Len(m_regions)
                /\ s_now' = m_k
                /\ Len(m_allResults) < config.maxResults
                /\ LET query == RegionQuery(m_base, m_regions[m_k])
                   IN  query # NoQuery => config'.searchQuery = query
          /\ m_k' \in {m_k, m_k + 1}
          /\ m_k' = m_k + 1 <=> (m_pc' = "loop" /\ m_pc \in {"sub", "delay"})
          /\ m_regions' = m_regions
          /\ (m_pc' = "returned" /\ m_pc # "returned") =>
                \/ Len(m_allResults') >= config.maxResults
                \/ m_k = Len(m_regions) + 1]_vars

\* the second of the seven default regions filled the cap of two: the call
\* returned without going through the other five
C11_Witness ==
    /\ m_pc = "returned"
    /\ Len(m_regions) = 7
    /\ m_k = 2
    /\ config.maxResults = 2
    /\ Len(m_result) = 2

\* the sub-search of the current region has thrown
SubSearchThrew == m_pc = "sub" /\ s_pc = "threw"

\* C12: when a sub-search has thrown, the next step of searchMultipleQueries
\* keeps the merged records and the seen identities and goes to the loop head
\* for the next region; and the call returns the empty list when no
\* sub-search returned a record.
C12_SubSearchSkipped ==
    [][/\ SubSearchThrew =>
             /\ m_allResults' = m_allResults
             /\ m_seenPlaceIds' = m_seenPlaceIds
             /\ m_pc' = "loop"
             /\ m_k' = m_k + 1
             /\ s_pc' = "idle"
       /\ (m_pc' = "returned" /\ m_returned' = {}) => m_result' = <<>>]_vars

\* no query anywhere: both sub-searches threw, the second was still run and
\* the call returned the empty list
C12_Witness ==
    /\ m_pc = "returned"
    /\ m_base = NoQuery
    /\ m_regions = <<"", "">>
    /\ config.searchQuery = NoQuery
    /\ config.directUrl = ""
    /\ m_k = 3
    /\ m_result = <<>>

\* C13: no step of search, searchByUrl or searchMultipleQueries changes a
\* field of this.config.
C13_ConfigFrozen == [][config' = config]_vars

\* C14: a search that ends without an error and found no link yielding a
\* record (no feed, a no-results marker, or no links) returns the empty array
\* with its page closed; it never enters the detail loop; and its scroll loop
\* runs at most maxScrolls iterations.
C14_EmptyResult ==
    /\ (s_pc \in {"finally", "returned"} /\ s_error = 0 /\ Kept(s_links, s_now) = {}) =>
          s_result = <<>>
    /\ (s_pc = "returned" /\ Kept(s_links, s_now) = {}) => ~SearchPageOpen
    /\ Kept(s_links, s_now) = {} => "enrich" \notin Range(s_log)
    /\ Len(sc_counts) <= config.maxScrolls
    /\ s_pc = "scroll" => sc_i < config.maxScrolls

\* the early return: the page showed no results
C14_Witness ==
    /\ s_pc = "returned"
    /\ s_kind = "search"
    /\ s_log = <<"navigate">>
    /\ s_result = <<>>
    /\ s_opened = 1
    /\ ~SearchPageOpen

\* the error records the entry point has written
ErrorRecords == {j \in DOMAIN mn_dataset : mn_dataset[j].kind = "error"}

\* C15: in the entry point every query and every start URL of the input is
\* processed exactly once, in input order; a query or URL whose processing
\* failed has exactly one error record and is counted once in failedSearches,
\* and the run goes on with the next one, so that a run that is over has
\* started every query and URL and has written as many error records as it
\* counted failures.
C15_EveryItemProcessed ==
    /\ mn_started = [j \in 1..Len(mn_started) |-> j]
    /\ \A j1, j2 \in ErrorRecords : mn_dataset[j1].item = mn_dataset[j2].item => j1 = j2
    /\ mn_pc \in {"done", "threw"} =>
          /\ Len(mn_started) = ItemCount
          /\ Cardinality(ErrorRecords) = mn_stats.failedSearches

\* C16: for every integer maxResults and maxScrolls of the input the scraper
\* is constructed with 1 <= maxResults <= 200 and 1 <= maxScrolls <= 100, and
\* an absent field stands for 100 results and 50 scrolls.
C16_EffectiveLimits ==
    mn_pc \notin {"idle", "threw"} =>
        /\ mn_input.maxResults = Absent => mn_maxResults = MainDefaultMaxResults
        /\ mn_input.maxScrolls = Absent => mn_maxScrolls = MainDefaultMaxScrolls
        /\ mn_pc \in {"init", "search", "push", "close", "delay"} =>
              /\ config.maxResults \in 1..MaxResultsLimit
              /\ config.maxScrolls \in 1..MaxScrollsLimit

PlaceIdPrefixes == {"ChI", "hex_", "generated_", "fallback_"}

\* C17: every identity the resolution chain produces contains no '?' and
\* starts with 'ChI', 'hex_', 'generated_' or 'fallback_', and the strategy
\* that produced it is the first of the chain that found anything.
C17_PlaceIdFormat ==
    u_fn = "placeId" =>
        /\ u_out.placeId # <<>>
        /\ "?" \notin Range(u_out.placeId)
        /\ u_out.placeId[1] \in PlaceIdPrefixes
        /\ u_out.by \in 1..LastStrategy
        /\ \A k \in 1..(u_out.by - 1) : PlaceIdStrategy(k, u_arg) = <<>>

\* a data attribute with a query string gave the identity, cut at the '?'
C17_Witness ==
    /\ u_fn = "placeId"
    /\ u_out.by = 4
    /\ u_arg.attrs[1] = <<"x">>
    /\ u_arg.parentAttrs[2] = <<"ChI", "?", "x">>
    /\ u_out.placeId = <<"ChI">>

\* the positions of the two parts of an address with exactly one "@"
AtSigns(e) == {j \in DOMAIN e : e[j] = "@"}
LocalOf(e) == SubSeq(e, 1, Leftmost(AtSigns(e)) - 1)
DomainOf(e) == SubSeq(e, Leftmost(AtSigns(e)) + 1, Len(e))

\* the address has the syntax local@domain.tld: one "@", a local part and a
\* domain of letters, digits, dots and hyphens, and a last label of two or
\* more letters after a dot that does not start the domain
ValidSyntax(e) ==
    /\ Cardinality(AtSigns(e)) = 1
    /\ LocalOf(e) # <<>>
    /\ "!" \notin Range(e)
    /\ LET domain == DomainOf(e)
       IN  /\ Len(domain) >= 3
           /\ domain[Len(domain)] \notin {".", "-", "1", "a"}
           /\ domain[Len(domain) - 1] = "."

\* the address, lower-cased, contains a string of the blacklist
OnBlacklist(e) ==
    \E blocked \in Blacklist, p \in DOMAIN e :
        /\ p + Len(blocked) - 1 <= Len(e)
        /\ SubSeq(ToLowerCase(e), p, p + Len(blocked) - 1) = blocked

\* the positions of emails that are to be kept, in order
RECURSIVE KeptPositions(_, _)
KeptPositions(emails, j) ==
    IF j > Len(emails) THEN <<>>
    ELSE (IF ValidSyntax(emails[j]) /\ ~OnBlacklist(emails[j]) THEN <<emails[j]>> ELSE <<>>)
             \o KeptPositions(emails, j + 1)

RatingShaped(text) == RatingMatch(text, {"4"})

\* C19: address normalization returns the empty string for every text that
\* matches ^[\d.]+\s*\(\d+\)$, by cleanAddress and by validateAddress
\* (normalizeAddress) alike.
C19_RatingTextDropped ==
    (u_fn \in {"cleanAddress", "validateAddress"} /\ RatingShaped(u_arg)) => u_out = <<>>

\* C20: normalizeRating returns a number between 0 and 5 with at most one
\* decimal place, 0 for an absent or unparsable value, and normalizing the
\* result again returns the same number.
C20_RatingNormalized ==
    /\ u_fn = "normalizeRating" =>
          /\ u_out.type = "number"
          /\ u_out.milli \in 0..(5 * Milli)
          /\ u_out.milli % 100 = 0
          /\ u_arg.type = "null" => u_out.milli = 0
          /\ (u_arg.type = "string" /\ Range(u_arg.chars) \cap {"0", "4", "5"} = {})
                => u_out.milli = 0
    /\ u_fn = "normalizeRating twice" => u_out.twice = u_out.once

\* 4.45 was rounded to 4.5 and stayed 4.5 when normalized again
C20_Witness ==
    /\ u_fn = "normalizeRating twice"
    /\ u_arg = JsNumber(4450)
    /\ u_out.once = JsNumber(4500)
    /\ u_out.twice = JsNumber(4500)
(***************************************************************************)
(* Scroll convergence                                                      *)
(***************************************************************************)
\* the count iteration j is compared with: that of iteration j - 1, and the
\* initial previousCount = 0 for the first iteration
CountBefore(counts, j) == IF j = 1 THEN 0 ELSE counts[j - 1]

\* the number of most recent consecutive iterations, up to iteration j, whose
\* count equalled the count before
RECURSIVE StallRun(_, _)
StallRun(counts, j) ==
    IF j = 0 \/ counts[j] # CountBefore(counts, j) THEN 0 ELSE 1 + StallRun(counts, j - 1)

\* C21: in performScrolling the stall counter equals the number of most recent
\* consecutive iterations whose count equalled the previous count (0 before the
\* first iteration), so it is zero after an iteration whose count increased;
\* the loop has ended once the counter is 8, so it never exceeds 8
C21_StallCounter ==
    u_fn = "performScrolling" =>
        /\ sc_noChangeCount = StallRun(sc_counts, Len(sc_counts))
        /\ \A j \in 1..Len(sc_counts) :
              (j = Len(sc_counts) /\ sc_counts[j] > CountBefore(sc_counts, j)) => sc_noChangeCount = 0
        /\ sc_noChangeCount <= StallLimit
        /\ sc_noChangeCount = StallLimit => u_out # "loop"

\* the count grew in the first iteration, then eight stalled iterations ended
\* the loop before maxScrolls was reached
C21_Witness ==
    /\ u_fn = "performScrolling"
    /\ u_out = "returned"
    /\ sc_counts = <<1, 1, 1, 1, 1, 1, 1, 1, 1>>
    /\ sc_noChangeCount = StallLimit
    /\ u_arg = MaxIterations

\* the iterations run so far, without the last one
Earlier(counts) == 1..(Len(counts) - 1)

\* the call has returned or thrown
ScrollEnded == u_fn = "performScrolling" /\ u_out \in {"returned", "threw"}

\* C22: performScrolling runs at most maxScrolls iterations, no iteration
\* follows one that observed 200 or more, whatever the stall counter, and
\* every call ends
C22_ScrollTerminates ==
    /\ [](u_fn = "performScrolling" =>
            /\ Len(sc_counts) <= u_arg
            /\ \A j \in Earlier(sc_counts) : sc_counts[j] < CountCeiling
            /\ (sc_counts # <<>> /\ sc_counts[Len(sc_counts)] >= CountCeiling) => u_out # "loop")
    /\ (u_fn = "performScrolling" ~> ScrollEnded)

\* the ceiling ended a call whose stall counter was zero, before maxScrolls
C22_Witness ==
    /\ u_fn = "performScrolling"
    /\ u_out = "returned"
    /\ sc_counts = <<0, 1, CountCeiling>>
    /\ sc_noChangeCount = 0
    /\ u_arg = MaxIterations
(***************************************************************************)
(* Backoff delays                                                          *)
(***************************************************************************)
\* 2^i by repeated doubling
RECURSIVE Doubled(_, _)
Doubled(x, i) == IF i = 0 THEN x ELSE Doubled(2 * x, i - 1)

\* C23: the delay retryWithBackoff waits after failed attempt i (0-based) is
\* min(1000 * 2^i, 10000) ms; the delays of one call are non-decreasing and
\* none exceeds 10000 ms
C23_BackoffDelays ==
    /\ \A j \in 1..Len(rb_delays) :
          /\ rb_hist[j].ok = FALSE
          /\ rb_delays[j] = IF Doubled(1000, j - 1) < 10000 THEN Doubled(1000, j - 1) ELSE 10000
          /\ rb_delays[j] <= 10000
          /\ j > 1 => rb_delays[j - 1] <= rb_delays[j]
    /\ rb_pc = "sleep" => Len(rb_delays) = rb_i + 1

\* a call waited after five failed attempts: the fifth delay is the cap
C23_Witness ==
    /\ rb_pc = "sleep"
    /\ rb_i = 4
    /\ rb_delays = <<1000, 2000, 4000, 8000, 10000>>
(***************************************************************************)
(* Pages of the email harvester                                            *)
(***************************************************************************)
\* the fetches that have opened a page and have returned or thrown
FetchesEnded == {k \in DOMAIN be_slot : Settled(k) /\ be_slot[k].page # 0}

\* the pages the fetches of the call have opened and that are still open
HarvesterPagesOpen == {k \in DOMAIN be_slot : <<browser, FetchPageNo(k)>> \in openPages}

HarvestedAt(b) == {k \in 1..Len(be_businesses) : be_businesses[k].placeId = b.placeId}

\* the emails the merge owes record b: those of the fetch of its own website
HarvestedFor(b) ==
    IF HarvestedAt(b) = {} THEN b.emails ELSE OwnEmails(CHOOSE k \in HarvestedAt(b) : TRUE)

\* scrapeBusinessDetails merges what extractEmailsBatch returned
MergeStep == s_pc = "emails" /\ be_pc = "returned" /\ s_pc' # "emails"

\* C25: in whatever order the fetches of a batch end, extractEmailsBatch
\* returns one record per input business in input order, each with the emails
\* of its own fetch, and the merge of scrapeBusinessDetails gives every
\* business the emails of the fetch of its own website, matched by identity,
\* and leaves the others as they were
C25_OrderIndependent ==
    /\ [](be_pc = "returned" =>
            /\ Len(be_results) = Len(be_businesses)
            /\ \A k \in 1..Len(be_businesses) :
                  /\ be_results[k].placeId = be_businesses[k].placeId
                  /\ be_results[k].emails = OwnEmails(k))
    /\ [][MergeStep =>
            /\ Len(s_businesses') = Len(s_businesses)
            /\ \A j \in 1..Len(s_businesses) :
                  /\ Cardinality(HarvestedAt(s_businesses[j])) <= 1
                  /\ s_businesses'[j].placeId = s_businesses[j].placeId
                  /\ s_businesses'[j].emails = HarvestedFor(s_businesses[j])
                  /\ s_businesses'[j].email =
                        (IF HarvestedFor(s_businesses[j]) = <<>> THEN s_businesses[j].email
                         ELSE HarvestedFor(s_businesses[j])[1])]_vars

\* the fetch of the second business ended before the fetch of the first, and
\* the call returned the records in input order, each with its own emails
C25_Witness ==
    /\ s_pc = "emails"
    /\ be_pc = "returned"
    /\ Len(be_slot) = 2
    /\ be_slot[2].nth = 1 /\ be_slot[1].nth = 2
    /\ be_results[1].emails = <<Email(<<"info">>, ShopCom)>>
    /\ be_results[2].emails = <<Email(<<"sales">>, ShopCom)>>
(***************************************************************************)
(* Delay between sub-searches                                              *)
(***************************************************************************)
\* C26: in searchMultipleQueries the inter-search delay is waited between the
\* end of a sub-search, returned or thrown, and the start of the next one: a
\* sub-search that ends goes straight back to the loop test only when no region
\* is left
C26_DelayBetweenSubSearches ==
    [][(m_pc = "sub" /\ m_pc' = "loop") => m_k' > Len(m_regions)]_vars
(***************************************************************************)
(* Caching of the email harvester                                          *)
(***************************************************************************)
\* C27: an EmailExtractor instance navigates to a URL at most maxRetries
\* times, and once a call of extractEmailsFromWebsite for a URL has completed
\* every later call for that URL returns the list the first call returned and
\* opens no page
C27_CachedFetch ==
    /\ \A url \in DOMAIN ex_navs : ex_navs[url] <= ex_config.maxRetries
    /\ \A i, j \in 1..Len(ex_returns) :
          (i < j /\ ex_returns[i].url = ex_returns[j].url) =>
              /\ ex_returns[j].emails = ex_returns[i].emails
              /\ ~ex_returns[j].opened
(***************************************************************************)
(* Overlapping search calls                                                *)
(***************************************************************************)
\* the calls made with a query that have built their search URL
Navigating == {c \in Callers : sr_calls[c].query # NoQuery /\ sr_calls[c].pc \in {"nav", "returned"}}

\* C28: when search(query) calls overlap on one scraper instance, each call
\* navigates its page to the search URL of its own query argument and returns
\* the records of its own query
C28_OwnQuery ==
    \A c \in Navigating :
        /\ sr_calls[c].url = sr_calls[c].query
        /\ sr_calls[c].pc = "returned" => sr_calls[c].result = sr_calls[c].query
(***************************************************************************)
(* Links skipped by extractBusinesses                                      *)
(***************************************************************************)
\* the rendered links that have a container and a name
Usable(links) == {k \in DOMAIN links : links[k].container /\ links[k].name}

\* C29: the untruncated result of extractBusinesses has a record for every
\* identity that a rendered link with a container and a name resolves to: a
\* link skipped for lack of a container or a name does not make a later link
\* of the same identity a duplicate
C29_UsableIdentityKept ==
    \A k \in Usable(s_links) :
        PlaceIdOf(s_links[k], k, s_now) \in IdsOf(ExtractAll(s_links, s_now))
(***************************************************************************)
(* Browsers of the entry point                                             *)
(***************************************************************************)
\* C30: in the entry point the browser launched for a query or start URL has
\* been closed when the next query or URL is taken up and when the run ends,
\* whether the search succeeded or init, the search or the dataset write
\* failed; never are two launched browsers open
C30_OneBrowserAtATime ==
    /\ Cardinality(procs) <= 1
    /\ mn_pc \in {"item", "done"} => procs = {}
====
